---- MODULE Spec2Model ----
(***************************************************************************)
(* A model of the cerrful analysis core (github.com/sirkon/cerrful):       *)
(*   - the span index of package tracing (Context, attachInto,             *)
(*     descendSearch),                                                     *)
(*   - the Reporter,                                                       *)
(*   - the per-variable fact record (StateErrorFacts) and State,           *)
(*   - the SSA traversal InterpretSSA,                                     *)
(*   - the registries of known functions,                                  *)
(*   - the AST -> CIR translator.                                          *)
(* Each subsystem has its own specification (SpecCtx, SpecRep, ...); the   *)
(* variables of the other subsystems stay at their initial values there.   *)
(***************************************************************************)
EXTENDS Integers, Sequences, FiniteSets, TLC

VARIABLES
    tree,       \* Context.tree: the top-level tree of spans
    added,      \* the Add calls made so far, in order: <<[start, end, node]>>
    ctxPanic,   \* TRUE once attachInto has panicked
    lookupPos,  \* argument of the last GetByPos call (NoPos: none yet)
    lookupRes,  \* its result: a node, or Nil
    lookupAt    \* number of Add calls made before that GetByPos call

ctxVars == <<tree, added, ctxPanic, lookupPos, lookupRes, lookupAt>>

VARIABLES
    heap,       \* backing arrays of []Report slices: array id -> [cap, cells]
    reports,    \* Reporter.reports: a slice header [arr, len]
    mu,         \* Reporter.mu: 0 when unlocked, else the holder
    pc,         \* position of each reporting goroutine inside Reporter.Report
    loc,        \* the slice header each goroutine read for its append
    mainPc,     \* position of the caller of Reporter.Reports
    snaps,      \* the slices Reports() has returned, in order
    snapAfter,  \* per snapshot: the goroutines that had returned when Reports() was called
    mutatedIdx, \* per snapshot: the indices its holder has written to
    engine,     \* the reporter type in use: "Reporter" or "ReportEngine"
    calls       \* the arguments of the ReporterPhase.Report calls made so far, in order

repVars == <<heap, reports, mu, pc, loc, mainPc, snaps, snapAfter, mutatedIdx,
             engine, calls>>

VARIABLES
    st,         \* the State values in existence, in order of creation
    firstCare,  \* per State and variable: the handling its first SetTakenCare call asked for
    lastCall,   \* the last setter call on a fact record and what it returned
    factsPanic, \* TRUE once a call has panicked (write to a nil map)
    factObj,    \* per State and variable: the StateErrorFacts object stored there
    parent,     \* per State: the State it was cloned from (0: NewState)
    aliased     \* the alias assignments interpreted so far: <<State, a, b>> for a = b

factVars == <<st, firstCare, lastCall, factsPanic, factObj, parent, aliased>>

VARIABLES
    cfg,        \* fn.Blocks: block index -> [instrs, succs]; block 1 is fn.Blocks[0]
    stack,      \* InterpretSSA's stack of frames [block, state]
    visited,    \* InterpretSSA's visited set
    cur,        \* the block traceBlock is interpreting (0: none)
    ip,         \* index of the next instruction of cur
    curState,   \* newState, the State handed to traceBlock
    traced,     \* the blocks handed to traceBlock so far, in order
    nStates,    \* the number of State objects allocated (NewState, Clone)
    reached,    \* the frames popped so far: [block, state, obj, traced]
    emitted     \* the reports made while interpreting: <<[rule, pos]>>

interpVars ==
    <<cfg, stack, visited, cur, ip, curState, traced, nStates, reached, emitted>>

VARIABLES
    regBuilt,   \* the registries constructed so far
    regCustom,  \* per registry: the user table its constructor was given
    regKnown    \* per registry: its known map

regVars == <<regBuilt, regCustom, regKnown>>

VARIABLES
    trFile,     \* the declarations of the file being translated
    trNext,     \* the index of the declaration TranslateFile handles next
    trProg      \* prog.Functions

trVars == <<trFile, trNext, trProg>>

VARIABLES
    pfArg,      \* the argument of the function called on its own
    pfRes       \* <<>> before the call, <<r>> once it has returned r

pureVars == <<pfArg, pfRes>>

vars == <<ctxVars, repVars, factVars, interpVars, regVars, trVars, pureVars>>

\* what an operation of one subsystem leaves alone in the others
notCtx == <<repVars, factVars, interpVars, regVars, trVars, pureVars>>
notRep == <<ctxVars, factVars, interpVars, regVars, trVars, pureVars>>
notFact == <<ctxVars, repVars, interpVars, regVars, trVars, pureVars>>
notInterp == <<ctxVars, repVars, factVars, regVars, trVars, pureVars>>
notReg == <<ctxVars, repVars, factVars, interpVars, trVars, pureVars>>
notTr == <<ctxVars, repVars, factVars, interpVars, regVars, pureVars>>
notPure == <<ctxVars, repVars, factVars, interpVars, regVars, trVars>>

----
(***************************************************************************)
(* Bounds.                                                                 *)
(***************************************************************************)
MaxPos == 3     \* token positions are 0..MaxPos
MaxAdds == 3    \* number of Context.Add calls
NumReporters == 2   \* goroutines calling Reporter.Report once each
MaxSnaps == 2       \* number of Reporter.Reports calls
MaxStates == 3     \* number of State values (NewState and its clones)
MaxStmts == 2      \* statements in the body of a translated function
NumBlocks == 3      \* basic blocks of the interpreted function
MaxCalls == 2       \* ReporterPhase.Report calls made one after another
MaxMsgLen == 5      \* characters in a format text

Positions == 0..MaxPos
Spans == {sp \in Positions \X Positions : sp[1] <= sp[2]}

Nil == 0        \* the nil cir.Node; nodes are 1, 2, ...
NoPos == 0 - 1  \* no GetByPos call was made yet

----
(***************************************************************************)
(* Span index: internal/tracing/context_span.go and Context.               *)
(*                                                                         *)
(* A tree of the rbtree package is modelled as a binary search tree under  *)
(* Cmp: the empty tree is <<>>, a non-empty one is <<cell>> with           *)
(*   cell = [start, end, node, children, left, right].                     *)
(* start/end/node/children are the fields of contextNodeSpan; left and     *)
(* right are the links of the tree cell holding the pointer. A nil         *)
(* children pointer and an allocated empty tree are both <<>>: every read  *)
(* of children in the code treats them alike. Rotations of the red-black   *)
(* tree are not modelled.                                                  *)
(***************************************************************************)
EmptyTree == <<>>

\* contextNodeSpan{start, end, node} with nil children
NewSpan(start, end, node) ==
    [start |-> start, end |-> end, node |-> node, children |-> EmptyTree]

\* contextNodeSpan.Cmp
Cmp(n, other) ==
    IF n.end < other.start THEN 0 - 1
    ELSE IF n.start > other.end THEN 1
    ELSE 0

\* contains(a, b)
contains(a, b) == a.start <= b.start /\ a.end >= b.end

\* the fields of a tree cell that belong to the contextNodeSpan it points to
SpanOf(cell) ==
    [start |-> cell.start, end |-> cell.end, node |-> cell.node,
     children |-> cell.children]

Cell(s, left, right) ==
    [start |-> s.start, end |-> s.end, node |-> s.node,
     children |-> s.children, left |-> left, right |-> right]

\* attachInto(t, s): [tree |-> the tree afterwards, panic |-> it panicked].
\* The descent to the first cell r with Cmp = 0 is t.InsertReturn(s).
RECURSIVE attachInto(_, _)
attachInto(t, s) ==
    IF t = EmptyTree
    THEN [tree |-> <<Cell(s, EmptyTree, EmptyTree)>>, panic |-> FALSE]
    ELSE LET r == t[1]
             c == Cmp(s, r)
         IN  IF c < 0
             THEN LET sub == attachInto(r.left, s)
                  IN  [tree |-> <<[r EXCEPT !.left = sub.tree]>>,
                       panic |-> sub.panic]
             ELSE IF c > 0
             THEN LET sub == attachInto(r.right, s)
                  IN  [tree |-> <<[r EXCEPT !.right = sub.tree]>>,
                       panic |-> sub.panic]
             ELSE IF contains(s, r)
             THEN \* old := *r; *r = *s; attachInto(r.children, &old)
                  LET sub == attachInto(s.children, SpanOf(r))
                  IN  [tree |-> <<[Cell(s, r.left, r.right)
                                     EXCEPT !.children = sub.tree]>>,
                       panic |-> sub.panic]
             ELSE IF contains(r, s)
             THEN \* n := *s; *s = *r; attachInto(s.children, &n)
                  LET sub == attachInto(r.children, s)
                  IN  [tree |-> <<[r EXCEPT !.children = sub.tree]>>,
                       panic |-> sub.panic]
             ELSE [tree |-> t, panic |-> TRUE]

\* Tree.Search(probe) with probe = [pos, pos]: <<>> or <<the cell found>>
RECURSIVE Search(_, _)
Search(t, pos) ==
    IF t = EmptyTree THEN <<>>
    ELSE LET r == t[1]
             c == Cmp([start |-> pos, end |-> pos], r)
         IN  IF c < 0 THEN Search(r.left, pos)
             ELSE IF c > 0 THEN Search(r.right, pos)
             ELSE <<r>>

\* descendSearch(n, pos) for a non-nil n
RECURSIVE descendSearch(_, _)
descendSearch(n, pos) ==
    IF n.children = EmptyTree THEN n.node
    ELSE LET child == Search(n.children, pos)
         IN  IF child = <<>> THEN n.node
             ELSE LET v == descendSearch(child[1], pos)
                  IN  IF v # Nil THEN v ELSE n.node

\* Context.GetByPos as a function of the tree
GetByPosOf(t, pos) ==
    LET res == Search(t, pos)
    IN  IF res = <<>> THEN Nil ELSE descendSearch(res[1], pos)

\* NewContext()
InitCtx ==
    /\ tree = EmptyTree
    /\ added = <<>>
    /\ ctxPanic = FALSE
    /\ lookupPos = NoPos
    /\ lookupRes = Nil
    /\ lookupAt = 0

\* Context.Add(node, span)
Add(node, sp) ==
    /\ ~ctxPanic
    /\ Len(added) < MaxAdds
    /\ LET got == attachInto(tree, NewSpan(sp[1], sp[2], node))
       IN  /\ tree' = got.tree
           /\ ctxPanic' = got.panic
           /\ added' = Append(added, [start |-> sp[1], end |-> sp[2], node |-> node])
    /\ UNCHANGED <<lookupPos, lookupRes, lookupAt, notCtx>>

\* Context.GetByPos(pos)
GetByPos(pos) ==
    /\ ~ctxPanic
    /\ lookupPos' = pos
    /\ lookupRes' = GetByPosOf(tree, pos)
    /\ lookupAt' = Len(added)
    /\ UNCHANGED <<tree, added, ctxPanic, notCtx>>

\* a node not added before (nodes are numbered by their first Add call)
AddAny == \E sp \in Spans : Add(Len(added) + 1, sp)
\* a node added before, with the span it was added with
AddAgain ==
    \E k \in 1..Len(added) : Add(added[k].node, <<added[k].start, added[k].end>>)
GetByPosAny == \E pos \in Positions : GetByPos(pos)

NextCtx == AddAny \/ AddAgain \/ GetByPosAny

----
(***************************************************************************)
(* Reporter: Reporter.Report / Reporter.Reports (and the identical         *)
(* ReportEngine methods).                                                  *)
(*                                                                         *)
(* A slice is a header [arr, len] over a backing array heap[arr] =         *)
(* [cap, cells]; the nil slice has arr = 0. Two headers with the same arr  *)
(* share their elements, as in Go.                                         *)
(***************************************************************************)
Goroutines == 1..NumReporters
Main == NumReporters + 1    \* the goroutine that calls Reports

NilSlice == [arr |-> 0, len |-> 0]

CapOf(h, sl) == IF sl.arr = 0 THEN 0 ELSE h[sl.arr].cap

\* the elements a slice header denotes
Contents(h, sl) == IF sl.arr = 0 THEN <<>> ELSE SubSeq(h[sl.arr].cells, 1, sl.len)

\* allocation of a fresh backing array
NewArr(h) == Cardinality(DOMAIN h) + 1
Alloc(h, cap, cells) == (NewArr(h) :> [cap |-> cap, cells |-> cells]) @@ h

\* an append that puts the new element in front of the others
AppendSliceInFront(h, sl, rep) ==
    [heap |-> Alloc(h, sl.len + 1, <<rep>> \o Contents(h, sl)),
     out |-> [arr |-> NewArr(h), len |-> sl.len + 1]]

\* append(sl, rep): in place while the capacity lasts, else into a grown copy
AppendSlice(h, sl, rep) ==
    IF sl.len < CapOf(h, sl)
    THEN LET old == h[sl.arr].cells
             new == SubSeq(old, 1, sl.len) \o <<rep>> \o
                    SubSeq(old, sl.len + 2, Len(old))
         IN  [heap |-> [h EXCEPT ![sl.arr].cells = new],
              out |-> [arr |-> sl.arr, len |-> sl.len + 1]]
    ELSE LET cap == IF CapOf(h, sl) = 0 THEN 1 ELSE 2 * CapOf(h, sl)
         IN  [heap |-> Alloc(h, cap, Append(Contents(h, sl), rep)),
              out |-> [arr |-> NewArr(h), len |-> sl.len + 1]]

\* the Report value goroutine g passes to Reporter.Report
ReportOf(g) ==
    [phase |-> "trace", rule |-> "CER000", msg |-> "parallel add", pos |-> g]

\* sync.Mutex: Lock blocks until the mutex is free
MutexFreeBroken(m) == TRUE
MutexFree(m) == m = 0

\* out := make([]Report, len(r.reports)); copy(out, r.reports)
ReportsShared(h, sl) == [heap |-> h, out |-> sl]
ReportsCopy(h, sl) ==
    [heap |-> Alloc(h, sl.len, Contents(h, sl)),
     out |-> [arr |-> NewArr(h), len |-> sl.len]]

InitRep ==
    /\ heap = <<>>
    /\ reports = NilSlice
    /\ mu = 0
    /\ pc = [g \in Goroutines |-> "start"]
    /\ loc = [g \in Goroutines |-> NilSlice]
    /\ mainPc = "idle"
    /\ snaps = <<>>
    /\ snapAfter = <<>>
    /\ mutatedIdx = <<>>
    /\ engine = "Reporter"
    /\ calls = <<>>

\* Reporter.Report: r.mu.Lock()
ReportLock(g) ==
    /\ pc[g] = "start"
    /\ MutexFree(mu)
    /\ mu' = g
    /\ pc' = [pc EXCEPT ![g] = "locked"]
    /\ UNCHANGED <<heap, reports, loc, mainPc, snaps, snapAfter, mutatedIdx, engine, calls, notRep>>

\* Reporter.Report: the read of r.reports in append(r.reports, rep)
ReportRead(g) ==
    /\ pc[g] = "locked"
    /\ loc' = [loc EXCEPT ![g] = reports]
    /\ pc' = [pc EXCEPT ![g] = "read"]
    /\ UNCHANGED <<heap, reports, mu, mainPc, snaps, snapAfter, mutatedIdx, engine, calls, notRep>>

\* Reporter.Report: r.reports = append(..., rep)
ReportAppend(g) ==
    /\ pc[g] = "read"
    /\ LET got == AppendSlice(heap, loc[g], ReportOf(g))
       IN  /\ heap' = got.heap
           /\ reports' = got.out
    /\ pc' = [pc EXCEPT ![g] = "appended"]
    /\ UNCHANGED <<mu, loc, mainPc, snaps, snapAfter, mutatedIdx, engine, calls, notRep>>

\* Reporter.Report: r.mu.Unlock() and return
ReportUnlock(g) ==
    /\ pc[g] = "appended"
    /\ mu' = 0
    /\ pc' = [pc EXCEPT ![g] = "done"]
    /\ UNCHANGED <<heap, reports, loc, mainPc, snaps, snapAfter, mutatedIdx, engine, calls, notRep>>

\* Reporter.Reports: the call and r.mu.Lock()
ReportsLock ==
    /\ mainPc = "idle"
    /\ Len(snaps) < MaxSnaps
    /\ MutexFree(mu)
    /\ mu' = Main
    /\ mainPc' = "locked"
    /\ snapAfter' = Append(snapAfter, {g \in Goroutines : pc[g] = "done"})
    /\ UNCHANGED <<heap, reports, pc, loc, snaps, mutatedIdx, engine, calls, notRep>>

\* Reporter.Reports: make and copy
ReportsCopyOut ==
    /\ mainPc = "locked"
    /\ LET got == ReportsCopy(heap, reports)
       IN  /\ heap' = got.heap
           /\ snaps' = Append(snaps, got.out)
    /\ mutatedIdx' = Append(mutatedIdx, {})
    /\ mainPc' = "copied"
    /\ UNCHANGED <<reports, mu, pc, loc, snapAfter, engine, calls, notRep>>

\* Reporter.Reports: the deferred r.mu.Unlock() and return
ReportsUnlock ==
    /\ mainPc = "copied"
    /\ mu' = 0
    /\ mainPc' = "idle"
    /\ UNCHANGED <<heap, reports, pc, loc, snaps, snapAfter, mutatedIdx, engine, calls, notRep>>

\* the caller writes to an element of a snapshot it holds:
\* reps[k].Message = "changed"
MutateSnapshot(i, k) ==
    /\ mainPc = "idle"
    /\ i \in 1..Len(snaps)
    /\ k \in 1..snaps[i].len
    /\ k \notin mutatedIdx[i]
    /\ heap' = [heap EXCEPT ![snaps[i].arr].cells[k].msg = "changed"]
    /\ mutatedIdx' = [mutatedIdx EXCEPT ![i] = @ \cup {k}]
    /\ UNCHANGED <<reports, mu, pc, loc, mainPc, snaps, snapAfter, engine, calls, notRep>>

ReportLockAny == \E g \in Goroutines : ReportLock(g)
ReportReadAny == \E g \in Goroutines : ReportRead(g)
ReportAppendAny == \E g \in Goroutines : ReportAppend(g)
ReportUnlockAny == \E g \in Goroutines : ReportUnlock(g)
MutateSnapshotAny ==
    \E i \in 1..MaxSnaps, k \in 1..NumReporters : MutateSnapshot(i, k)

NextRep ==
    \/ ReportLockAny
    \/ ReportReadAny
    \/ ReportAppendAny
    \/ ReportUnlockAny
    \/ ReportsLock
    \/ ReportsCopyOut
    \/ ReportsUnlock
    \/ MutateSnapshotAny

\* C2: when the goroutines have each called Report once and have all
\* returned, a Reports() call made afterwards yields exactly one record per
\* call: none is lost, none is duplicated.
C2_NoReportLost ==
    \A i \in 1..Len(snaps) :
        snapAfter[i] = Goroutines =>
            /\ snaps[i].len = NumReporters
            /\ \A g \in Goroutines :
                 Cardinality({k \in 1..snaps[i].len :
                     Contents(heap, snaps[i])[k].pos = g}) = 1

C2_Witness ==
    /\ Len(snaps) >= 1
    /\ snapAfter[Len(snaps)] = Goroutines
    /\ mainPc = "idle"

\* C3: Reports() returns a fresh copy: a write to an element of a returned
\* snapshot shows neither in the records the Reporter stores nor in any other
\* snapshot, earlier or later.
C3_SnapshotIsCopy ==
    /\ \A k \in 1..reports.len : Contents(heap, reports)[k].msg # "changed"
    /\ \A i \in 1..Len(snaps) : \A k \in 1..snaps[i].len :
         Contents(heap, snaps[i])[k].msg = "changed" => k \in mutatedIdx[i]

C3_Witness ==
    /\ Len(snaps) >= 2
    /\ \E i \in 1..Len(snaps) : mutatedIdx[i] # {}
    /\ \E i \in 1..Len(snaps) : mutatedIdx[i] = {} /\ snaps[i].len >= 1

\* the two reporter types of package tracing
Engines == {"Reporter", "ReportEngine"}

\* Rule.Description for the rules reported here
Description(rule) ==
    IF rule = "CER000" THEN "Error must never be ignored."
    ELSE IF rule = "CER150" THEN "Error must be either logged or returned, never both."
    ELSE "unknwon-rule"

\* the arguments of a ReporterPhase.Report call: the phase the reporter is
\* bound to, the rule, the message (possibly empty) and the position
PhaseCalls ==
    [phase : {"source", "trace"}, rule : {"CER000", "CER150"},
     msg : {"", "Error must never be ignored"}, pos : {1, 2}]

\* the Report a ReporterPhase of a Reporter hands to Reporter.Report
ReporterPhaseRecordNoPhase(c) ==
    [phase |-> "unknown-phase(0)", rule |-> c.rule, msg |-> c.msg, pos |-> c.pos]
ReporterPhaseRecord(c) ==
    [phase |-> c.phase, rule |-> c.rule, msg |-> c.msg, pos |-> c.pos]

\* the Report a ReporterPhase of a ReportEngine hands to ReportEngine.Report
EnginePhaseRecord(c) ==
    [phase |-> c.phase, rule |-> c.rule,
     msg |-> IF c.msg = "" THEN Description(c.rule) ELSE c.msg, pos |-> c.pos]

\* r.Phase(c.phase).Report(c.rule, c.msg, c.pos) by the goroutine that also
\* calls Reports: Lock, append and Unlock of Report as one step
PhaseReport(c) ==
    /\ mainPc = "idle"
    /\ MutexFree(mu)
    /\ Len(calls) < MaxCalls
    /\ LET rep == IF engine = "Reporter" THEN ReporterPhaseRecord(c)
                  ELSE EnginePhaseRecord(c)
           got == AppendSlice(heap, reports, rep)
       IN  /\ heap' = got.heap
           /\ reports' = got.out
    /\ calls' = Append(calls, c)
    /\ UNCHANGED <<mu, pc, loc, mainPc, snaps, snapAfter, mutatedIdx, engine, notRep>>

PhaseReportAny == \E c \in PhaseCalls : PhaseReport(c)

NextPhase ==
    \/ PhaseReportAny
    \/ ReportsLock
    \/ ReportsCopyOut
    \/ ReportsUnlock

\* the records agree with the first calls on phase, rule and position, and on
\* the message where the reporter type stores the message as passed
AsCalled(recs) ==
    /\ Len(recs) <= Len(calls)
    /\ \A k \in 1..Len(recs) :
         /\ recs[k].phase = calls[k].phase
         /\ recs[k].rule = calls[k].rule
         /\ recs[k].pos = calls[k].pos
         /\ (engine = "Reporter" \/ calls[k].msg # "") => recs[k].msg = calls[k].msg

\* C18: reports made one after another are stored, and returned by
\* Reports(), in the order of the calls, each with the phase of the
\* phase-bound reporter it was made through and the rule, message and
\* position passed in (a ReportEngine stores an empty message as C19 says).
C18_ReportsInCallOrder ==
    /\ reports.len = Len(calls)
    /\ AsCalled(Contents(heap, reports))
    /\ \A i \in 1..Len(snaps) : AsCalled(Contents(heap, snaps[i]))
    /\ mainPc = "copied" => snaps[Len(snaps)].len = Len(calls)

\* Reports() has returned two records made through reporters bound to
\* different phases
C18_Witness ==
    /\ mainPc = "idle"
    /\ Len(snaps) >= 1
    /\ snaps[Len(snaps)].len >= 2
    /\ calls[1].phase # calls[2].phase
    /\ calls[1].pos # calls[2].pos

\* C19: a report made through a phase-bound reporter with an empty message
\* is stored with the rule's Description() as its message, and one with a
\* non-empty message with that message unchanged.
C19_EmptyMessageBecomesDescription ==
    \A k \in 1..reports.len :
        Contents(heap, reports)[k].msg =
            IF calls[k].msg = "" THEN Description(calls[k].rule) ELSE calls[k].msg

\* the elements of the i-th snapshot its holder has not written to
Untouched(i) == {k \in 1..snaps[i].len : k \notin mutatedIdx[i]}

\* C30: whatever the interleaving of Report and Reports calls, every
\* snapshot is a prefix of every snapshot taken after it and of the stored
\* records: a stored report is never removed, reordered or modified, and
\* every record of a snapshot is a whole record some Report call passed.
C30_SnapshotsArePrefixes ==
    /\ \A i \in 1..Len(snaps) : \A k \in Untouched(i) :
         /\ k <= reports.len
         /\ Contents(heap, snaps[i])[k] = Contents(heap, reports)[k]
         /\ \E g \in Goroutines : Contents(heap, snaps[i])[k] = ReportOf(g)
    /\ \A i \in 1..Len(snaps) : \A j \in (i + 1)..Len(snaps) :
         /\ snaps[i].len <= snaps[j].len
         /\ \A k \in Untouched(i) \cap Untouched(j) :
              Contents(heap, snaps[i])[k] = Contents(heap, snaps[j])[k]

\* two snapshots were taken with a Report call between them, and a further
\* Report call after the second
C30_Witness ==
    /\ Len(snaps) >= 2
    /\ snaps[1].len >= 1
    /\ snaps[2].len > snaps[1].len
    /\ mainPc = "idle"

----
(***************************************************************************)
(* Fact records: StateErrorFacts (state_error_facts.go; Facts of           *)
(* errors_state_facts.go has the same code) and State (state.go).          *)
(*                                                                         *)
(* A *bool field is "unset" (nil) or names the value it points to; the     *)
(* pointee is never written through, so the sharing Clone leaves between   *)
(* two records is not observable. A map is nil (xNil = TRUE) or allocated. *)
(***************************************************************************)
Names == {"err"}            \* error variable names
Classes == {"io.EOF", "os.ErrNotExist", "os.ErrExist"}

EmptyMap == [x \in {} |-> FALSE]

\* &StateErrorFacts{}
NewFacts ==
    [notNil |-> "unset", takenCare |-> "unset", wrapped |-> FALSE,
     classOfNil |-> TRUE, classOf |-> EmptyMap]

\* StateErrorFacts.Clone; maps.Clone of a nil map is nil
CloneFacts(f) ==
    [notNil |-> f.notNil, takenCare |-> f.takenCare, wrapped |-> f.wrapped,
     classOfNil |-> f.classOfNil, classOf |-> f.classOf]

\* NewState(): &State{} with both maps nil
NewState == [errorsNil |-> TRUE, errors |-> EmptyMap, exitsNil |-> TRUE]

\* State.Clone
CloneState(s) ==
    [errorsNil |-> FALSE,
     errors |-> [n \in DOMAIN s.errors |-> CloneFacts(s.errors[n])],
     exitsNil |-> FALSE]

BoolName(b) == IF b THEN "true" ELSE "false"
CareName(isReturned) == IF isReturned THEN "returned" ELSE "logged"

\* a SetNotNil that records whatever it is given
SetNotNilOverwrites(f, isnotnil) ==
    [f |-> [f EXCEPT !.notNil = BoolName(isnotnil)], status |-> "OK"]
\* StateErrorFacts.SetNotNil
SetNotNil(f, isnotnil) ==
    IF f.notNil = "unset"
    THEN [f |-> [f EXCEPT !.notNil = BoolName(isnotnil)], status |-> "OK"]
    ELSE IF f.notNil = BoolName(isnotnil)
    THEN [f |-> f, status |-> "Duplicate"]
    ELSE [f |-> f, status |-> "Contradict"]

\* StateErrorFacts.SetTakenCare
SetTakenCareOverwrites(f, isReturned) ==
    [f |-> [f EXCEPT !.takenCare = CareName(isReturned)], status |-> "OK"]
SetTakenCareSwapped(f, isReturned) ==
    IF f.takenCare # "unset"
    THEN IF f.takenCare = "returned"
         THEN [f |-> f, status |-> "AlreadyLogged"]
         ELSE [f |-> f, status |-> "AlreadyReturned"]
    ELSE [f |-> [f EXCEPT !.takenCare = CareName(isReturned)], status |-> "OK"]
SetTakenCare(f, isReturned) ==
    IF f.takenCare # "unset"
    THEN IF f.takenCare = "returned"
         THEN [f |-> f, status |-> "AlreadyReturned"]
         ELSE [f |-> f, status |-> "AlreadyLogged"]
    ELSE [f |-> [f EXCEPT !.takenCare = CareName(isReturned)], status |-> "OK"]

\* a SetClass that records a new class without looking for another exact one
SetClassAnyExact(f, class, exact) ==
    IF class \notin DOMAIN f.classOf
    THEN IF f.classOfNil
         THEN [f |-> f, status |-> "none", panic |-> TRUE]
         ELSE [f |-> [f EXCEPT !.classOf =
                        [c \in DOMAIN f.classOf \cup {class} |->
                            IF c = class THEN exact ELSE f.classOf[c]]],
               status |-> "OK", panic |-> FALSE]
    ELSE IF ~f.classOf[class] /\ exact
    THEN [f |-> f, status |-> "DuplicateUpgrade", panic |-> FALSE]
    ELSE IF f.classOf[class] /\ ~exact
    THEN [f |-> f, status |-> "DuplicateDowngrade", panic |-> FALSE]
    ELSE [f |-> f, status |-> "Duplicate", panic |-> FALSE]

\* a SetClass that names the two duplicate cases the other way round
SetClassSwapped(f, class, exact) ==
    IF class \notin DOMAIN f.classOf
    THEN IF exact /\ \E c \in DOMAIN f.classOf : f.classOf[c]
         THEN [f |-> f, status |-> "ExactImpossible", panic |-> FALSE]
         ELSE IF f.classOfNil
         THEN [f |-> f, status |-> "none", panic |-> TRUE]
         ELSE [f |-> [f EXCEPT !.classOf =
                        [c \in DOMAIN f.classOf \cup {class} |->
                            IF c = class THEN exact ELSE f.classOf[c]]],
               status |-> "OK", panic |-> FALSE]
    ELSE IF ~f.classOf[class] /\ exact
    THEN [f |-> f, status |-> "DuplicateDowngrade", panic |-> FALSE]
    ELSE IF f.classOf[class] /\ ~exact
    THEN [f |-> f, status |-> "DuplicateUpgrade", panic |-> FALSE]
    ELSE [f |-> f, status |-> "Duplicate", panic |-> FALSE]

\* StateErrorFacts.SetClass; the write f.classOf[class] = exact panics on a
\* nil map
SetClass(f, class, exact) ==
    IF class \notin DOMAIN f.classOf
    THEN IF exact /\ \E c \in DOMAIN f.classOf : f.classOf[c]
         THEN [f |-> f, status |-> "ExactImpossible", panic |-> FALSE]
         ELSE IF f.classOfNil
         THEN [f |-> f, status |-> "none", panic |-> TRUE]
         ELSE [f |-> [f EXCEPT !.classOf =
                        [c \in DOMAIN f.classOf \cup {class} |->
                            IF c = class THEN exact ELSE f.classOf[c]]],
               status |-> "OK", panic |-> FALSE]
    ELSE IF ~f.classOf[class] /\ exact
    THEN [f |-> f, status |-> "DuplicateUpgrade", panic |-> FALSE]
    ELSE IF f.classOf[class] /\ ~exact
    THEN [f |-> f, status |-> "DuplicateDowngrade", panic |-> FALSE]
    ELSE [f |-> f, status |-> "Duplicate", panic |-> FALSE]

\* StateErrorFacts.SetWrapped
SetWrapped(f) == [f EXCEPT !.wrapped = TRUE]

\* the getters
IsNotNil(f) == f.notNil
IsTakenCare(f) == f.takenCare # "unset"
IsLogged(f) == f.takenCare = "logged"
IsReturned(f) == f.takenCare = "returned"
IsClassOf(f, ref) == ref \in DOMAIN f.classOf
Is(f, ref) == IF ref \notin DOMAIN f.classOf THEN FALSE ELSE f.classOf[ref]
IsWrapped(f) == f.wrapped

NoCall == [op |-> "none", st |-> 0, name |-> "", arg |-> "", status |-> "none",
           priorFirst |-> "none"]

\* a Clone that stores the objects of the State it copies
CloneObjsShared(objs, k) == objs

\* the objects State.Clone stores in the State it creates as the k-th: one
\* new StateErrorFacts per variable
CloneObjs(objs, k) == [m \in DOMAIN objs |-> <<k, m>>]

\* the State values once the fact object st[i] holds under n has the value
\* f: every State that holds the same object sees it
StoreFact(i, n, f) ==
    [j \in 1..Len(st) |->
        [st[j] EXCEPT !.errors =
            [m \in DOMAIN st[j].errors |->
                IF factObj[j][m] = factObj[i][n] THEN f ELSE st[j].errors[m]]]]

InitFacts ==
    /\ st = <<NewState>>
    /\ firstCare = <<[n \in Names |-> "none"]>>
    /\ lastCall = NoCall
    /\ factsPanic = FALSE
    /\ factObj = <<EmptyMap>>
    /\ parent = <<0>>
    /\ aliased = {}

\* ns := s.Clone()
CallClone(i) ==
    /\ ~factsPanic
    /\ Len(st) < MaxStates
    /\ st' = Append(st, CloneState(st[i]))
    /\ firstCare' = Append(firstCare, firstCare[i])
    /\ factObj' = Append(factObj, CloneObjs(factObj[i], Len(st) + 1))
    /\ parent' = Append(parent, i)
    /\ UNCHANGED <<lastCall, factsPanic, aliased, notFact>>

\* s.Var(name): the stored record, or a new one stored under name; the store
\* panics when s.errors is nil
CallVar(i, n) ==
    /\ ~factsPanic
    /\ n \notin DOMAIN st[i].errors
    /\ IF st[i].errorsNil
       THEN /\ factsPanic' = TRUE
            /\ UNCHANGED <<st, factObj>>
       ELSE /\ st' = [st EXCEPT ![i].errors =
                        [m \in DOMAIN st[i].errors \cup {n} |->
                            IF m = n THEN NewFacts ELSE st[i].errors[m]]]
            /\ factObj' = [factObj EXCEPT ![i] =
                             [m \in DOMAIN factObj[i] \cup {n} |->
                                 IF m = n THEN <<i, n>> ELSE factObj[i][m]]]
            /\ UNCHANGED factsPanic
    /\ UNCHANGED <<firstCare, lastCall, parent, aliased, notFact>>

\* s.Var(n).SetNotNil(b) on a stored record
CallSetNotNil(i, n, b) ==
    /\ ~factsPanic
    /\ n \in DOMAIN st[i].errors
    /\ LET got == SetNotNil(st[i].errors[n], b)
       IN  /\ st' = StoreFact(i, n, got.f)
           /\ lastCall' = [op |-> "SetNotNil", st |-> i, name |-> n,
                           arg |-> BoolName(b), status |-> got.status,
                           priorFirst |-> "none"]
    /\ UNCHANGED <<firstCare, factsPanic, factObj, parent, aliased, notFact>>

\* s.Var(n).SetTakenCare(isReturned) on a stored record
CallSetTakenCare(i, n, isReturned) ==
    /\ ~factsPanic
    /\ n \in DOMAIN st[i].errors
    /\ LET got == SetTakenCare(st[i].errors[n], isReturned)
       IN  /\ st' = StoreFact(i, n, got.f)
           /\ lastCall' = [op |-> "SetTakenCare", st |-> i, name |-> n,
                           arg |-> CareName(isReturned), status |-> got.status,
                           priorFirst |-> firstCare[i][n]]
    /\ firstCare' = [firstCare EXCEPT ![i][n] =
                        IF @ = "none" THEN CareName(isReturned) ELSE @]
    /\ UNCHANGED <<factsPanic, factObj, parent, aliased, notFact>>

\* s.Var(n).SetClass(class, exact) on a stored record
CallSetClass(i, n, class, exact) ==
    /\ ~factsPanic
    /\ n \in DOMAIN st[i].errors
    /\ LET got == SetClass(st[i].errors[n], class, exact)
       IN  /\ st' = StoreFact(i, n, got.f)
           /\ factsPanic' = got.panic
           /\ lastCall' = [op |-> "SetClass", st |-> i, name |-> n,
                           arg |-> class, status |-> got.status,
                           priorFirst |-> "none"]
    /\ UNCHANGED <<firstCare, factObj, parent, aliased, notFact>>

\* s.Var(n).SetWrapped() on a stored record
CallSetWrapped(i, n) ==
    /\ ~factsPanic
    /\ n \in DOMAIN st[i].errors
    /\ st' = StoreFact(i, n, SetWrapped(st[i].errors[n]))
    /\ lastCall' = [op |-> "SetWrapped", st |-> i, name |-> n, arg |-> "",
                    status |-> "none", priorFirst |-> "none"]
    /\ UNCHANGED <<firstCare, factsPanic, factObj, parent, aliased, notFact>>

CallCloneAny == \E i \in 1..Len(st) : CallClone(i)
CallVarAny == \E i \in 1..Len(st), n \in Names : CallVar(i, n)
CallSetNotNilAny ==
    \E i \in 1..Len(st), n \in Names, b \in BOOLEAN : CallSetNotNil(i, n, b)
CallSetTakenCareAny ==
    \E i \in 1..Len(st), n \in Names, b \in BOOLEAN : CallSetTakenCare(i, n, b)
CallSetClassAny ==
    \E i \in 1..Len(st), n \in Names, c \in Classes, b \in BOOLEAN :
        CallSetClass(i, n, c, b)
CallSetWrappedAny == \E i \in 1..Len(st), n \in Names : CallSetWrapped(i, n)

NextFacts ==
    \/ CallCloneAny
    \/ CallVarAny
    \/ CallSetNotNilAny
    \/ CallSetTakenCareAny
    \/ CallSetClassAny
    \/ CallSetWrappedAny

\* the classes a fact record holds as exact
ExactClasses(f) == {c \in DOMAIN f.classOf : f.classOf[c]}

C23_FirstNilnessKept ==
    [][\A i \in 1..Len(st), n \in Names, b \in BOOLEAN :
          CallSetNotNil(i, n, b) =>
              LET old == st[i].errors[n].notNil
              IN  /\ old = "unset" =>
                       /\ lastCall'.status = "OK"
                       /\ st'[i].errors[n].notNil = BoolName(b)
                  /\ old # "unset" =>
                       /\ st' = st
                       /\ lastCall'.status =
                            IF old = BoolName(b) THEN "Duplicate" ELSE "Contradict"]_vars

\* a record known to be not nil was asked to be nil and kept its value
C23_Witness ==
    \E i \in 1..Len(st) :
        /\ lastCall.op = "SetNotNil" /\ lastCall.st = i
        /\ lastCall.arg = "false"
        /\ lastCall.status = "Contradict"
        /\ "err" \in DOMAIN st[i].errors
        /\ IsNotNil(st[i].errors["err"]) = "true"

\* C26: a record State.Var has just created holds no classes, and the first
\* SetClass(c, exact) on a record that holds none records c with that
\* exactness and returns OK: afterwards IsClassOf(c) is true and Is(c)
\* equals exact.
C26_FirstSetClassRecorded ==
    [][/\ \A i \in 1..Len(st), n \in Names :
            (CallVar(i, n) /\ ~factsPanic') =>
                \A c \in Classes : ~IsClassOf(st'[i].errors[n], c)
       /\ \A i \in 1..Len(st), n \in Names, c \in Classes, b \in BOOLEAN :
            (/\ CallSetClass(i, n, c, b)
             /\ \A d \in Classes : ~IsClassOf(st[i].errors[n], d))
            => /\ ~factsPanic'
               /\ lastCall'.status = "OK"
               /\ IsClassOf(st'[i].errors[n], c)
               /\ Is(st'[i].errors[n], c) = b]_vars

\* C27: State.Var(name) on a State that holds no record for name creates an
\* empty record, stores it under name and returns it, on every State,
\* including one NewState() has just returned; the call after it finds that
\* record.
C27_VarCreatesRecord ==
    [][\A i \in 1..Len(st), n \in Names :
          CallVar(i, n) =>
              /\ ~factsPanic'
              /\ n \in DOMAIN st'[i].errors
              /\ st'[i].errors[n] = NewFacts]_vars

\* what the getters of a fact record return
GetterResults(f) ==
    [isNotNil |-> IsNotNil(f), isTakenCare |-> IsTakenCare(f),
     isLogged |-> IsLogged(f), isReturned |-> IsReturned(f),
     isClassOf |-> [c \in Classes |-> IsClassOf(f, c)],
     is |-> [c \in Classes |-> Is(f, c)], isWrapped |-> IsWrapped(f)]

\* C13: a State and its clones are isolated: a step changes what the getters
\* return for a variable of a State only when it is a setter call made on
\* that variable of that State; a call made on one clone leaves the getter
\* results of every other clone and of the State they were cloned from as
\* they were.
C13_ClonesIsolated ==
    [][\A j \in 1..Len(st) : \A n \in DOMAIN st[j].errors :
          GetterResults(st'[j].errors[n]) # GetterResults(st[j].errors[n])
              => lastCall'.st = j /\ lastCall'.name = n]_vars

\* a clone that inherited a variable was marked wrapped by the last call and
\* the State it was cloned from is not
C13_Witness ==
    \E k \in 1..Len(st) :
        /\ parent[k] # 0
        /\ "err" \in DOMAIN st[k].errors
        /\ "err" \in DOMAIN st[parent[k]].errors
        /\ lastCall.op = "SetWrapped" /\ lastCall.st = k
        /\ IsWrapped(st[k].errors["err"])
        /\ ~IsWrapped(st[parent[k]].errors["err"])

\* C4: on every fact record, after any sequence of SetTakenCare calls, the
\* recorded handling is the one the first call asked for: once logged or
\* returned, it never becomes the other value nor unhandled again.
C4_FirstHandlingKept ==
    \A i \in 1..Len(st) : \A n \in DOMAIN st[i].errors :
        /\ firstCare[i][n] = "none" => ~IsTakenCare(st[i].errors[n])
        /\ firstCare[i][n] = "logged" =>
             IsLogged(st[i].errors[n]) /\ ~IsReturned(st[i].errors[n])
        /\ firstCare[i][n] = "returned" =>
             IsReturned(st[i].errors[n]) /\ ~IsLogged(st[i].errors[n])

\* a record was logged first and then asked to be returned
C4_Witness ==
    /\ lastCall.op = "SetTakenCare"
    /\ lastCall.priorFirst = "logged"
    /\ lastCall.arg = "returned"

\* C5: SetTakenCare returns OK only for the first call on a fact record; each
\* later call, whatever it asks for, returns the violation status naming the
\* earlier handling: AlreadyLogged after logged, AlreadyReturned after
\* returned.
C5_StatusNamesEarlierHandling ==
    lastCall.op = "SetTakenCare" =>
        /\ lastCall.priorFirst = "none" => lastCall.status = "OK"
        /\ lastCall.priorFirst = "logged" => lastCall.status = "AlreadyLogged"
        /\ lastCall.priorFirst = "returned" => lastCall.status = "AlreadyReturned"

\* a record was returned first and then asked to be logged
C5_Witness ==
    /\ lastCall.op = "SetTakenCare"
    /\ lastCall.priorFirst = "returned"
    /\ lastCall.arg = "logged"
    /\ lastCall.status = "AlreadyReturned"

\* the error variables of a function that aliases one to the other
AliasNames == {"err", "newErr"}

\* interpret -> handleAssign on "a = b", a and b error variables whose
\* records in State i hold the same facts: the handler is a stub and State
\* has no field for the link, so no State changes
AssignAlias(i, a, b) ==
    /\ ~factsPanic
    /\ a # b
    /\ a \in DOMAIN st[i].errors
    /\ b \in DOMAIN st[i].errors
    /\ GetterResults(st[i].errors[a]) = GetterResults(st[i].errors[b])
    /\ aliased' = aliased \cup {<<i, a, b>>}
    /\ UNCHANGED <<st, firstCare, lastCall, factsPanic, factObj, parent, notFact>>

AliasVar == \E n \in AliasNames : CallVar(1, n)
AliasAssign == \E a, b \in AliasNames : AssignAlias(1, a, b)
AliasSetNotNil == \E n \in AliasNames, b \in BOOLEAN : CallSetNotNil(1, n, b)
AliasSetTakenCare == \E n \in AliasNames, b \in BOOLEAN : CallSetTakenCare(1, n, b)
AliasSetWrapped == \E n \in AliasNames : CallSetWrapped(1, n)

NextAlias ==
    \/ AliasVar
    \/ AliasAssign
    \/ AliasSetNotNil
    \/ AliasSetTakenCare
    \/ AliasSetWrapped

\* C15: once a variable was assigned as an alias of another, every fact
\* change made on either reaches both: the getters of the two records return
\* the same results (also when the aliases form the cycle a = b; b = a).
C15_AliasesShareFacts ==
    \A l \in aliased :
        GetterResults(st[l[1]].errors[l[2]]) = GetterResults(st[l[1]].errors[l[3]])

----
(***************************************************************************)
(* InterpretSSA (ssa_interpret.go).                                        *)
(*                                                                         *)
(* The interpreted function is a control-flow graph over one error         *)
(* variable, err. Block 1 is the entry block and starts with the           *)
(* assignment of err from a call; a block may log err; a block with two    *)
(* successors ends with "if err != nil" (Succs[0] is the then branch), a   *)
(* block with one successor ends with a jump, a block with none ends with  *)
(* "return err" or "return nil". The position of an instruction is         *)
(* <<block, index>>.                                                       *)
(***************************************************************************)
Blocks == 1..NumBlocks

\* Succs of a block: none (return), one (jump) or two (if); the entry block
\* of an ssa.Function has no predecessor
SuccSeqs ==
    LET inner == Blocks \ {1}
    IN  {<<>>} \cup {<<j>> : j \in inner} \cup {<<j, k>> : j, k \in inner}

\* the instructions of block b
InstrsOf(b, succs, logAt, retNil) ==
    (IF b = 1 THEN <<[kind |-> "Assign", name |-> "err"]>> ELSE <<>>) \o
    (IF b = logAt THEN <<[kind |-> "Call", name |-> "err"]>> ELSE <<>>) \o
    (IF Len(succs) = 2 THEN <<[kind |-> "If", name |-> "err"]>>
     ELSE IF Len(succs) = 1 THEN <<[kind |-> "Jump", name |-> ""]>>
     ELSE IF b \in retNil THEN <<[kind |-> "Return", name |-> "nil"]>>
     ELSE <<[kind |-> "Return", name |-> "err"]>>)

\* a frame; state is the State value, obj tells which State object holds it
Frame(b, s, obj) == [block |-> b, state |-> s, obj |-> obj]

\* fn is given; stack := []frame{{fn.Blocks[0], NewState()}}; visited is empty
InitInterp ==
    /\ \E succs \in [Blocks -> SuccSeqs], logAt \in 0..NumBlocks,
          retNil \in SUBSET Blocks :
         /\ \A b \in retNil : succs[b] = <<>>
         /\ cfg = [b \in Blocks |->
                     [instrs |-> InstrsOf(b, succs[b], logAt, retNil),
                      succs |-> succs[b]]]
    /\ stack = <<Frame(1, NewState, 1)>>
    /\ visited = {}
    /\ cur = 0
    /\ ip = 1
    /\ curState = NewState
    /\ traced = <<>>
    /\ nStates = 1
    /\ reached = <<>>
    /\ emitted = <<>>

\* the loop of InterpretSSA up to the call of traceBlock: pop a frame, skip
\* it when its block is visited, else mark the block and clone the state
PopFrame ==
    /\ cur = 0
    /\ stack # <<>>
    /\ LET n == Len(stack)
           f == stack[n]
       IN  /\ stack' = SubSeq(stack, 1, n - 1)
           /\ IF f.block \in visited
              THEN /\ reached' = Append(reached, [block |-> f.block, state |-> f.state,
                                                 obj |-> f.obj, traced |-> FALSE])
                   /\ UNCHANGED <<visited, cur, ip, curState, traced, nStates>>
              ELSE /\ visited' = visited \cup {f.block}
                   /\ cur' = f.block
                   /\ ip' = 1
                   /\ curState' = CloneState(f.state)
                   /\ traced' = Append(traced, f.block)
                   /\ nStates' = nStates + 1
                   /\ reached' = Append(reached, [block |-> f.block, state |-> f.state,
                                                 obj |-> f.obj, traced |-> TRUE])
    /\ UNCHANGED <<cfg, emitted, notInterp>>

\* the instruction traceBlock hands to interpret next
AtInstr(kinds) ==
    /\ cur # 0
    /\ ip <= Len(cfg[cur].instrs)
    /\ cfg[cur].instrs[ip].kind \in kinds

\* interpret -> handleCall: a stub, it changes nothing
handleCall ==
    /\ AtInstr({"Call"})
    /\ ip' = ip + 1
    /\ UNCHANGED <<cfg, stack, visited, cur, curState, traced, nStates, reached,
                 emitted, notInterp>>

\* interpret -> handleIf: a stub, it changes nothing
handleIf ==
    /\ AtInstr({"If"})
    /\ ip' = ip + 1
    /\ UNCHANGED <<cfg, stack, visited, cur, curState, traced, nStates, reached,
                 emitted, notInterp>>

\* interpret -> handleReturn: a stub, it changes nothing
handleReturn ==
    /\ AtInstr({"Return"})
    /\ ip' = ip + 1
    /\ UNCHANGED <<cfg, stack, visited, cur, curState, traced, nStates, reached,
                 emitted, notInterp>>

\* interpret -> handleAssign (every other instruction): a stub
handleAssign ==
    /\ AtInstr({"Assign", "Jump"})
    /\ ip' = ip + 1
    /\ UNCHANGED <<cfg, stack, visited, cur, curState, traced, nStates, reached,
                 emitted, notInterp>>

\* a PushSuccs that pushes a frame for the first successor only
PushSuccsFirstOnly ==
    /\ cur # 0
    /\ ip > Len(cfg[cur].instrs)
    /\ stack' = stack \o
                [k \in 1..(IF Len(cfg[cur].succs) > 0 THEN 1 ELSE 0) |->
                    Frame(cfg[cur].succs[k], CloneState(curState), nStates + k)]
    /\ nStates' = nStates + Len(cfg[cur].succs)
    /\ cur' = 0
    /\ UNCHANGED <<cfg, visited, ip, curState, traced, reached, emitted, notInterp>>

\* after traceBlock: push a frame with a clone of newState per successor
PushSuccs ==
    /\ cur # 0
    /\ ip > Len(cfg[cur].instrs)
    /\ stack' = stack \o
                [k \in 1..Len(cfg[cur].succs) |->
                    Frame(cfg[cur].succs[k], CloneState(curState), nStates + k)]
    /\ nStates' = nStates + Len(cfg[cur].succs)
    /\ cur' = 0
    /\ UNCHANGED <<cfg, visited, ip, curState, traced, reached, emitted, notInterp>>

NextInterp ==
    \/ PopFrame
    \/ handleCall
    \/ handleIf
    \/ handleReturn
    \/ handleAssign
    \/ PushSuccs

\* InterpretSSA has returned
InterpDone == cur = 0 /\ stack = <<>>

----
(***************************************************************************)
(* Registries of known functions: newKnownErrWrapChecker,                  *)
(* newKnownLoggingFuncs, newKnownAbandonFuncs.                             *)
(*                                                                         *)
(* A packagedFunc key is <<pkgPath, name>>; a map is a function over its   *)
(* keys.                                                                   *)
(***************************************************************************)
Registries == {"wrap", "logging", "abandon"}

\* a table of <<pkgPath, name, value>> rows as a map
TableMap(T) ==
    [k \in {<<t[1], t[2]>> : t \in T} |->
        (CHOOSE t \in T : <<t[1], t[2]>> = k)[3]]

\* predefined of newKnownErrWrapChecker
PredefinedWrapTable ==
    {<<"fmt", "Errorf", "SigWrapTypeErrorf">>,
     <<"github.com/sirkon/errors", "Wrap", "SigWrapTypeWrap">>,
     <<"github.com/sirkon/errors", "Wrapf", "SigWrapTypeWrap">>,
     <<"gitlab.corp.mail.ru/infra/hotbox/library/go/errors", "Wrap", "SigWrapTypeWrap">>,
     <<"gitlab.corp.mail.ru/infra/hotbox/library/go/errors", "Wrapf", "SigWrapTypeWrap">>,
     <<"github.com/pkg/errors", "Wrap", "SigWrapTypeWrap">>,
     <<"github.com/pkg/errors", "Wrapf", "SigWrapTypeWrap">>,
     <<"github.com/pkg/errors", "WithMessage", "SigWrapTypeWrap">>,
     <<"github.com/pkg/errors", "WithMessagef", "SigWrapTypeWrap">>,
     <<"golang.org/x/xerrors", "Errorf", "SigWrapTypeErrorf">>}

\* predefined of newKnownLoggingFuncs
PredefinedLoggingTable ==
    {<<"builtin", "print", "SigLoggingTypeFormat">>,
     <<"builtin", "printf", "SigLoggingTypeFormat">>,
     <<"builtin", "println", "SigLoggingTypeFormat">>,
     <<"fmt", "Print", "SigLoggingTypeFormat">>,
     <<"fmt", "Printf", "SigLoggingTypeFormat">>,
     <<"fmt", "Println", "SigLoggingTypeFormat">>,
     <<"log", "Print", "SigLoggingTypeFormat">>,
     <<"log", "Printf", "SigLoggingTypeFormat">>,
     <<"log", "Println", "SigLoggingTypeFormat">>,
     <<"log", "Panic", "SigLoggingTypeFormat">>,
     <<"log", "Panicf", "SigLoggingTypeFormat">>,
     <<"log", "Panicln", "SigLoggingTypeFormat">>,
     <<"log", "Fatal", "SigLoggingTypeFormat">>,
     <<"log", "Fatalf", "SigLoggingTypeFormat">>,
     <<"log", "Fatalln", "SigLoggingTypeFormat">>,
     <<"log/slog", "Debug", "SigLoggingTypeSlog">>,
     <<"log/slog", "Info", "SigLoggingTypeSlog">>,
     <<"log/slog", "Warn", "SigLoggingTypeSlog">>,
     <<"log/slog", "Error", "SigLoggingTypeSlog">>,
     <<"github.com/uber-go/zap", "Log", "SigLoggingTypeZap">>,
     <<"github.com/uber-go/zap", "Debug", "SigLoggingTypeZap">>,
     <<"github.com/uber-go/zap", "Info", "SigLoggingTypeZap">>,
     <<"github.com/uber-go/zap", "Warn", "SigLoggingTypeZap">>,
     <<"github.com/uber-go/zap", "Error", "SigLoggingTypeZap">>,
     <<"github.com/uber-go/zap", "DPanic", "SigLoggingTypeZap">>,
     <<"github.com/uber-go/zap", "Panic", "SigLoggingTypeZap">>,
     <<"github.com/uber-go/zap", "Fatal", "SigLoggingTypeZap">>,
     <<"github.com/rs/zerolog/log", "Msg", "SigLoggingTypeZap">>,
     <<"github.com/rs/zerolog/log", "Msgf", "SigLoggingTypeZap">>,
     <<"github.com/rs/zerolog/log", "Print", "SigLoggingTypeZap">>,
     <<"github.com/rs/zerolog", "Msg", "SigLoggingTypeZap">>,
     <<"github.com/rs/zerolog", "Msgf", "SigLoggingTypeZap">>,
     <<"github.com/sirkon/message", "Debug", "SigLoggingTypeFormat">>,
     <<"github.com/sirkon/message", "Debugf", "SigLoggingTypeFormat">>,
     <<"github.com/sirkon/message", "Info", "SigLoggingTypeFormat">>,
     <<"github.com/sirkon/message", "Infof", "SigLoggingTypeFormat">>,
     <<"github.com/sirkon/message", "Notice", "SigLoggingTypeFormat">>,
     <<"github.com/sirkon/message", "Noticef", "SigLoggingTypeFormat">>,
     <<"github.com/sirkon/message", "Warning", "SigLoggingTypeFormat">>,
     <<"github.com/sirkon/message", "Warningf", "SigLoggingTypeFormat">>,
     <<"github.com/sirkon/message", "Error", "SigLoggingTypeFormat">>,
     <<"github.com/sirkon/message", "Errorf", "SigLoggingTypeFormat">>,
     <<"github.com/sirkon/message", "Critical", "SigLoggingTypeFormat">>,
     <<"github.com/sirkon/message", "Criticalf", "SigLoggingTypeFormat">>,
     <<"github.com/sirkon/message", "Fatal", "SigLoggingTypeFormat">>,
     <<"github.com/sirkon/message", "Fatalf", "SigLoggingTypeFormat">>}

\* predefined of newKnownAbandonFuncs
PredefinedAbandonTable ==
    {<<"builtin", "panic", "SigAbandonTypeInvalid">>,
     <<"os", "Exit", "SigAbandonTypeInvalid">>,
     <<"testing", "Fatal", "SigAbandonTypeFormat">>,
     <<"testing", "Fatalf", "SigAbandonTypeFormat">>,
     <<"log", "Fatal", "SigAbandonTypeFormat">>,
     <<"log", "Fatalf", "SigAbandonTypeFormat">>,
     <<"log", "Fatalln", "SigAbandonTypeFormat">>,
     <<"log", "Panic", "SigAbandonTypeFormat">>,
     <<"log", "Panicf", "SigAbandonTypeFormat">>,
     <<"log", "Panicln", "SigAbandonTypeFormat">>,
     <<"github.com/uber-go/zap", "DPanic", "SigAbandonTypeZap">>,
     <<"github.com/uber-go/zap", "Panic", "SigAbandonTypeZap">>,
     <<"github.com/uber-go/zap", "Fatal", "SigAbandonTypeZap">>,
     <<"github.com/sirkon/message", "Fatal", "SigAbandonTypeFormat">>,
     <<"github.com/sirkon/message", "Fatalf", "SigAbandonTypeFormat">>,
     <<"github.com/sirkon/message", "Critical", "SigAbandonTypeFormat">>,
     <<"github.com/sirkon/message", "Criticalf", "SigAbandonTypeFormat">>}

Predefined(r) ==
    IF r = "wrap" THEN TableMap(PredefinedWrapTable)
    ELSE IF r = "logging" THEN TableMap(PredefinedLoggingTable)
    ELSE TableMap(PredefinedAbandonTable)

\* the values of SigWrapType, SigLoggingType, SigAbandonType
SigValues(r) ==
    IF r = "wrap"
    THEN {"SigWrapTypeInvalid", "SigWrapTypeErrorf", "SigWrapTypeWrap"}
    ELSE IF r = "logging"
    THEN {"SigLoggingTypeInvalid", "SigLoggingTypeFormat", "SigLoggingTypeZap",
          "SigLoggingTypeZerolog", "SigLoggingTypeSlog"}
    ELSE {"SigAbandonTypeInvalid", "SigAbandonTypeSilent", "SigAbandonTypeFormat",
          "SigAbandonTypeZap", "SigAbandonTypeZerolog"}

\* keys a user table may hold: one the predefined table has, one it has not
CustomKeys(r) ==
    IF r = "wrap" THEN {<<"fmt", "Errorf">>, <<"example.com/errs", "Annotate">>}
    ELSE IF r = "logging" THEN {<<"log", "Printf">>, <<"example.com/logs", "Log">>}
    ELSE {<<"os", "Exit">>, <<"example.com/logs", "Die">>}

\* the user tables: nil, or a map over some of the keys
CustomMaps(r) ==
    {[isNil |-> TRUE, m |-> EmptyMap]} \cup
    {[isNil |-> FALSE, m |-> f] :
        f \in UNION {[K -> SigValues(r)] : K \in SUBSET CustomKeys(r)}}

\* maps.Insert(m, maps.All(src)): every pair of src is stored into m
MapsInsert(m, src) ==
    [k \in DOMAIN m \cup DOMAIN src |-> IF k \in DOMAIN src THEN src[k] ELSE m[k]]

\* the body shared by the three constructors: custom is replaced by an empty
\* map when nil and by its clone otherwise, then predefined is inserted
NewKnown(custom, predefined) ==
    LET own == IF custom.isNil THEN EmptyMap ELSE custom.m
    IN  MapsInsert(own, predefined)

\* the lookup of getSupportFunctionSigType: c.known[key]
LookupKnown(known, key) ==
    IF key \in DOMAIN known
    THEN [ok |-> TRUE, val |-> known[key]]
    ELSE [ok |-> FALSE, val |-> "invalid"]

InitReg ==
    /\ regBuilt = {}
    /\ regCustom = [r \in Registries |-> [isNil |-> TRUE, m |-> EmptyMap]]
    /\ regKnown = [r \in Registries |-> EmptyMap]

newKnownErrWrapChecker ==
    \E custom \in CustomMaps("wrap") :
        /\ "wrap" \notin regBuilt
        /\ regBuilt' = regBuilt \cup {"wrap"}
        /\ regCustom' = [regCustom EXCEPT !["wrap"] = custom]
        /\ regKnown' = [regKnown EXCEPT !["wrap"] = NewKnown(custom, Predefined("wrap"))]
        /\ UNCHANGED notReg

newKnownLoggingFuncs ==
    \E custom \in CustomMaps("logging") :
        /\ "logging" \notin regBuilt
        /\ regBuilt' = regBuilt \cup {"logging"}
        /\ regCustom' = [regCustom EXCEPT !["logging"] = custom]
        /\ regKnown' = [regKnown EXCEPT !["logging"] = NewKnown(custom, Predefined("logging"))]
        /\ UNCHANGED notReg

newKnownAbandonFuncs ==
    \E custom \in CustomMaps("abandon") :
        /\ "abandon" \notin regBuilt
        /\ regBuilt' = regBuilt \cup {"abandon"}
        /\ regCustom' = [regCustom EXCEPT !["abandon"] = custom]
        /\ regKnown' = [regKnown EXCEPT !["abandon"] = NewKnown(custom, Predefined("abandon"))]
        /\ UNCHANGED notReg

NextReg ==
    \/ newKnownErrWrapChecker
    \/ newKnownLoggingFuncs
    \/ newKnownAbandonFuncs

\* C8 (as stated): when a registry is built from the built-in table and a
\* user table that both hold a key, the lookup of that key returns the
\* user's value; for the wrapper, logger and abandon registries alike.
C8_UserWins ==
    \A r \in regBuilt :
        \A k \in DOMAIN regCustom[r].m \cap DOMAIN Predefined(r) :
            LookupKnown(regKnown[r], k) = [ok |-> TRUE, val |-> regCustom[r].m[k]]

----
(***************************************************************************)
(* Translator: Go AST -> CIR (TranslateFile and its handlers).             *)
(*                                                                         *)
(* A string is a sequence of one-character strings; a rendered expression  *)
(* (exprString, a callee, a symbol) is a sequence of its parts.  What      *)
(* go/types tells the translator about an expression travels with the      *)
(* expression: isErr (its type is assignable to error), pkgScope (it is    *)
(* declared at package scope), local (it belongs to this module).          *)
(* Positions are left out of the nodes.                                    *)
(***************************************************************************)
NoExpr ==
    [kind |-> "none", pkg |-> "", name |-> "", isErr |-> FALSE,
     pkgScope |-> FALSE, local |-> FALSE, args |-> <<>>, val |-> <<>>]

Ident(name, isErr, pkgScope) ==
    [NoExpr EXCEPT !.kind = "ident", !.name = name, !.isErr = isErr,
                   !.pkgScope = pkgScope]

SelectorExpr(pkg, name, isErr, local) ==
    [NoExpr EXCEPT !.kind = "selector", !.pkg = pkg, !.name = name,
                   !.isErr = isErr, !.local = local]

\* pkg.name(args), or name(args) when pkg is ""
CallExpr(pkg, name, local, args) ==
    [NoExpr EXCEPT !.kind = "call", !.pkg = pkg, !.name = name,
                   !.local = local, !.args = args]

\* a literal as written in the source, quotes included
BasicLit(val) == [NoExpr EXCEPT !.kind = "lit", !.val = val]

\* a condition, kept as its text
BinaryExpr(val) == [NoExpr EXCEPT !.kind = "binary", !.val = val]

\* name.(T); isErr when T is assignable to error
TypeAssertExpr(name, isErr) ==
    [NoExpr EXCEPT !.kind = "typeassert", !.name = name, !.isErr = isErr]

NoStmt == [kind |-> "none"]
AssignStmt(lhs, rhs) == [kind |-> "assign", lhs |-> lhs, rhs |-> rhs]
ExprStmt(x) == [kind |-> "expr", x |-> x]
BlockStmt(list) == [kind |-> "block", list |-> list]
IfStmt(init, cond, body, els) ==
    [kind |-> "if", init |-> init, cond |-> cond, body |-> body, els |-> els]
ReturnStmt(results) == [kind |-> "return", results |-> results]
ForStmt(body) == [kind |-> "for", body |-> body]
SwitchStmt(body) == [kind |-> "switch", body |-> body]

\* a result of a signature; name is "" when the result is unnamed
Field(name, isErr) == [name |-> name, isErr |-> isErr]
FuncDecl(name, results, body) ==
    [kind |-> "func", name |-> name, results |-> results, body |-> body]
GenDecl == [kind |-> "gen", name |-> "", results |-> <<>>, body |-> NoStmt]

\* DefaultConfig
Loggers ==
    [k \in {<<"fmt", "Println">>, <<"fmt", "Printf">>, <<"log", "Println">>,
            <<"log", "Printf">>, <<"log", "Fatal">>, <<"log", "Fatalf">>,
            <<"log/slog", "Error">>, <<"log/slog", "Warn">>,
            <<"testing", "Log">>, <<"testing", "Error">>,
            <<"testing", "Fatal">>, <<"testing", "Fatalf">>} |->
        IF k[2] \in {"Fatal", "Fatalf"} THEN "fatal"
        ELSE IF k[2] = "Error" THEN "error" ELSE "warn"]

Checkers ==
    [k \in {<<"os", "IsExist">>, <<"os", "IsNotExist">>, <<"os", "IsTimeout">>,
            <<"os", "IsPermission">>, <<"errors", "Is">>} |->
        IF k = <<"os", "IsExist">> THEN <<"os", "ErrExist">>
        ELSE IF k = <<"os", "IsNotExist">> THEN <<"os", "ErrNotExist">>
        ELSE IF k = <<"os", "IsTimeout">> THEN <<"os", "ErrTimeout">>
        ELSE IF k = <<"os", "IsPermission">> THEN <<"os", "ErrPermission">>
        ELSE <<"errors", "Any">>]

Constructors == {<<"errors", "New">>, <<"fmt", "Errorf">>}

\* strings
HasSuffix(s, suf) ==
    /\ Len(suf) <= Len(s)
    /\ SubSeq(s, Len(s) - Len(suf) + 1, Len(s)) = suf

TrimSuffix(s, suf) ==
    IF HasSuffix(s, suf) THEN SubSeq(s, 1, Len(s) - Len(suf)) ELSE s

Contains(s, sub) ==
    \E i \in 1..(Len(s) - Len(sub) + 1) : SubSeq(s, i, i + Len(sub) - 1) = sub

\* strings.Trim(s, cutset): the leading and trailing characters of cutset go
Trim(s, cutset) ==
    LET keep == {i \in 1..Len(s) : s[i] \notin cutset}
    IN  IF keep = {} THEN <<>>
        ELSE SubSeq(s, CHOOSE i \in keep : \A j \in keep : i <= j,
                       CHOOSE i \in keep : \A j \in keep : i >= j)

TrimSpace(s) == Trim(s, {" ", "\t", "\n", "\r"})

normalizeWrapMsg(m) ==
    TrimSuffix(TrimSuffix(TrimSuffix(TrimSpace(m), <<":", " ", "%", "w">>),
                          <<" ", "%", "w">>),
               <<"(", "%", "w", ")">>)

\* stands for the character that delimits a raw string literal
BackQuote == "bq"

firstStringArg(call) ==
    IF Len(call.args) = 0 THEN <<>>
    ELSE IF call.args[1].kind = "lit" THEN Trim(call.args[1].val, {BackQuote, "\""})
    ELSE <<>>

elideParams(n) == IF n = 0 THEN "()" ELSE "(...)"

joinPkgName(pkg, name) == IF pkg = "" THEN <<name>> ELSE <<pkg, ".", name>>

\* printer.Fprint of an expression
RECURSIVE exprString(_)
RECURSIVE exprListString(_, _)
exprListString(args, i) ==
    IF i > Len(args) THEN <<>>
    ELSE (IF i > 1 THEN <<", ">> ELSE <<>>) \o exprString(args[i])
         \o exprListString(args, i + 1)

exprString(e) ==
    IF e.kind = "none" THEN <<>>
    ELSE IF e.kind = "ident" THEN <<e.name>>
    ELSE IF e.kind = "selector" THEN <<e.pkg, ".", e.name>>
    ELSE IF e.kind = "typeassert" THEN <<e.name, ".(", "error", ")">>
    ELSE IF e.kind \in {"lit", "binary"} THEN e.val
    ELSE joinPkgName(e.pkg, e.name) \o <<"(">> \o exprListString(e.args, 1)
         \o <<")">>

\* a test for the nil literal that recognises nothing
isNilLiteralNever(e) == FALSE

isNilLiteral(e) == e.kind = "ident" /\ e.name = "nil"

\* the variants of AssignSource
AssignSourceCtor(msg, via) == [variant |-> "Ctor", msg |-> msg, via |-> via]
AssignSourceCall(callee, local) ==
    [variant |-> "Call", callee |-> callee, local |-> local]
AssignSourceSentinel(symbol, local) ==
    [variant |-> "Sentinel", symbol |-> symbol, local |-> local]
AssignSourceAlias(target) == [variant |-> "Alias", target |-> target]
AssignSourceTypeAssert(expr) == [variant |-> "TypeAssert", expr |-> expr]

\* the CIR nodes
Assign(name, src) == [kind |-> "Assign", name |-> name, src |-> src]
Wrap(name, msg, via) == [kind |-> "Wrap", name |-> name, msg |-> msg, via |-> via]
Return(name) == [kind |-> "Return", name |-> name]
Log(names, level, via) ==
    [kind |-> "Log", vars |-> names, level |-> level, via |-> via]
Check(names, args, fn, class) ==
    [kind |-> "Check", vars |-> names, args |-> args, name |-> fn, class |-> class]
If(expr, then, els) == [kind |-> "If", expr |-> expr, then |-> then, els |-> els]

ViaErrorf == <<"fmt", ".", "Errorf">>

\* shortCall: the callee with its parameters elided, and whether it is local
shortCall(c) ==
    IF c.pkg = ""
    THEN [callee |-> <<c.name, elideParams(Len(c.args))>>, local |-> TRUE]
    ELSE [callee |-> <<c.pkg, ".", c.name, elideParams(Len(c.args))>>,
          local |-> c.local]

assignSourceForCall(c) ==
    LET sc == shortCall(c) IN AssignSourceCall(sc.callee, sc.local)

classifyConstructorOrWrap(call) ==
    LET via == joinPkgName(call.pkg, call.name)
        m == firstStringArg(call)
    IN  IF call.pkg = "fmt" /\ call.name = "Errorf"
        THEN IF Contains(m, <<"%", "w">>)
             THEN [via |-> via, msg |-> normalizeWrapMsg(m),
                   isCtor |-> FALSE, isWrap |-> TRUE]
             ELSE [via |-> via, msg |-> m, isCtor |-> TRUE, isWrap |-> FALSE]
        ELSE IF <<call.pkg, call.name>> \in Constructors
        THEN [via |-> via, msg |-> m, isCtor |-> TRUE, isWrap |-> FALSE]
        ELSE [via |-> via, msg |-> <<>>, isCtor |-> FALSE, isWrap |-> FALSE]

classifyAssignSource(e) ==
    IF e.kind = "call" THEN assignSourceForCall(e)
    ELSE IF e.kind = "typeassert" /\ e.isErr
    THEN AssignSourceTypeAssert(exprString(e))
    ELSE IF e.kind = "selector" /\ e.isErr
    THEN AssignSourceSentinel(<<e.pkg, ".", e.name>>, e.local)
    ELSE IF e.kind = "ident" /\ e.isErr
    THEN IF e.pkgScope THEN AssignSourceSentinel(<<e.name>>, e.local)
         ELSE AssignSourceAlias(<<e.name>>)
    ELSE AssignSourceAlias(exprString(e))

\* the last argument of a wrapper call with more than one argument
underlyingOf(ce) ==
    IF Len(ce.args) > 1 THEN ce.args[Len(ce.args)] ELSE NoExpr

\* newState, with the cursor into the order in which the iterations over
\* namedRet will come out
newState(fn, picks) ==
    [errVars |-> {}, namedRet |-> {}, funcName |-> fn, picks |-> picks, k |-> 1]

\* the named error results of a signature
namedErrorResults(results) ==
    {results[i].name : i \in {j \in 1..Len(results) :
                                 results[j].name # "" /\ results[j].isErr}}

\* ranging over the map namedRet yields its keys in an order that is not
\* fixed: the first key is any of them
findNamedErrorReturn(ts) ==
    IF ts.namedRet = {} THEN [name |-> "", st |-> ts]
    ELSE [name |-> ts.picks[ts.k], st |-> [ts EXCEPT !.k = ts.k + 1]]

\* the name a return statement binds: the named error result, else "@err"
returnName(ts) ==
    LET f == findNamedErrorReturn(ts)
    IN  [name |-> IF f.name = "" THEN "@err" ELSE f.name, st |-> f.st]

\* id.Name == "err" || HasSuffix(ToLower(id.Name), "err"), over the names used
endsWithErr(name) == name \in {"err", "oldErr", "newErr"}

markErr(ts, name) == [ts EXCEPT !.errVars = ts.errVars \cup {name}]

\* one pair of the general multi-assign loop of onAssign
onAssignPair(name, rhs, ts) ==
    LET c == classifyConstructorOrWrap(rhs)
        other(src) ==
            [out |-> <<Assign(name, src)>>,
             st |-> IF endsWithErr(name) THEN markErr(ts, name) ELSE ts]
    IN  IF rhs.kind = "none" THEN [out |-> <<>>, st |-> ts]
        ELSE IF rhs.kind = "call" /\ c.isCtor
        THEN other(AssignSourceCtor(c.msg, c.via))
        ELSE IF rhs.kind = "call" /\ c.isWrap
        THEN [out |-> <<Assign(name, classifyAssignSource(underlyingOf(rhs))),
                        Wrap(name, normalizeWrapMsg(firstStringArg(rhs)), ViaErrorf)>>,
              st |-> markErr(ts, name)]
        ELSE IF rhs.kind = "call" THEN other(assignSourceForCall(rhs))
        ELSE IF rhs.kind = "typeassert" /\ rhs.isErr
        THEN other(AssignSourceTypeAssert(exprString(rhs)))
        ELSE IF rhs.kind = "ident" /\ rhs.isErr
        THEN other(AssignSourceAlias(<<rhs.name>>))
        ELSE other(classifyAssignSource(rhs))

RECURSIVE onAssignPairs(_, _, _)
onAssignPairs(as, i, ts) ==
    IF i > Len(as.lhs) THEN [out |-> <<>>, st |-> ts]
    ELSE LET rhs == IF i <= Len(as.rhs) THEN as.rhs[i] ELSE NoExpr
             one == onAssignPair(as.lhs[i], rhs, ts)
             rest == onAssignPairs(as, i + 1, one.st)
         IN  [out |-> one.out \o rest.out, st |-> rest.st]

\* every left-hand side is an identifier
onAssign(as, ts) ==
    IF Len(as.lhs) = 1 /\ Len(as.rhs) = 1
    THEN LET id == as.lhs[1]
             rhs == as.rhs[1]
             c == classifyConstructorOrWrap(rhs)
         IN  IF rhs.kind = "call" /\ c.isCtor
             THEN [out |-> <<Assign(id, AssignSourceCtor(c.msg, c.via))>>,
                   st |-> markErr(ts, id)]
             ELSE IF rhs.kind = "call" /\ c.isWrap
             THEN [out |-> <<Assign(id, classifyAssignSource(underlyingOf(rhs))),
                             Wrap(id, normalizeWrapMsg(firstStringArg(rhs)), ViaErrorf)>>,
                   st |-> markErr(ts, id)]
             ELSE IF rhs.kind = "typeassert" /\ rhs.isErr
             THEN [out |-> <<Assign(id, AssignSourceTypeAssert(exprString(rhs)))>>,
                   st |-> markErr(ts, id)]
             ELSE IF rhs.kind = "ident" /\ rhs.isErr
             THEN [out |-> <<Assign(id, AssignSourceAlias(<<rhs.name>>))>>,
                   st |-> markErr(ts, id)]
             ELSE [out |-> <<Assign(id, classifyAssignSource(rhs))>>,
                   st |-> IF endsWithErr(id) THEN markErr(ts, id) ELSE ts]
    ELSE IF Len(as.rhs) = 1 /\ as.rhs[1].kind = "call" /\ Len(as.lhs) > 1
    THEN LET id == as.lhs[Len(as.lhs)]
         IN  [out |-> <<Assign(id, assignSourceForCall(as.rhs[1]))>>,
              st |-> markErr(ts, id)]
    ELSE onAssignPairs(as, 1, ts)

\* the arguments that are identifiers recorded in errVars, in order
errVarArgs(args, ts) ==
    SelectSeq([i \in 1..Len(args) |->
                  IF args[i].kind = "ident" /\ args[i].name \in ts.errVars
                  THEN args[i].name ELSE ""],
              LAMBDA n : n # "")

onExpr(e, ts) ==
    IF e.kind # "call" THEN <<>>
    ELSE IF e.pkg = "" /\ e.name = "panic"
    THEN IF Len(e.args) = 0 THEN <<>>
         ELSE LET arg == e.args[1]
              IN  IF arg.kind = "call" /\ classifyConstructorOrWrap(arg).isWrap
                  THEN <<Wrap("@err", classifyConstructorOrWrap(arg).msg, ViaErrorf),
                         Log(<<"@err">>, "fatal", <<"panic">>)>>
                  ELSE <<Log(<<exprString(arg)>>, "fatal", <<"panic">>)>>
    ELSE IF <<e.pkg, e.name>> \in DOMAIN Checkers
    THEN <<Check(errVarArgs(e.args, ts),
                 [i \in 1..Len(e.args) |-> exprString(e.args[i])],
                 <<e.pkg, e.name>>, Checkers[<<e.pkg, e.name>>])>>
    ELSE IF <<e.pkg, e.name>> \in DOMAIN Loggers /\ errVarArgs(e.args, ts) # <<>>
    THEN <<Log(errVarArgs(e.args, ts), Loggers[<<e.pkg, e.name>>],
               joinPkgName(e.pkg, e.name))>>
    ELSE <<>>

onReturn(r, ts) ==
    IF Len(r.results) = 0 THEN [out |-> <<>>, st |-> ts]
    ELSE LET res == r.results[Len(r.results)]
             c == classifyConstructorOrWrap(res)
             n == returnName(ts)
             src == classifyAssignSource(underlyingOf(res))
         IN  IF isNilLiteral(res) THEN [out |-> <<>>, st |-> ts]
             ELSE IF res.kind = "call" /\ c.isWrap
             THEN [out |-> (IF src.variant # "Alias"
                            THEN <<Assign(n.name, src)>> ELSE <<>>)
                           \o <<Wrap(n.name, c.msg, ViaErrorf), Return(n.name)>>,
                   st |-> n.st]
             ELSE IF res.kind = "call" /\ c.isCtor
             THEN [out |-> <<Assign(n.name, AssignSourceCtor(c.msg, c.via)),
                             Return(n.name)>>,
                   st |-> n.st]
             ELSE IF res.kind = "typeassert" /\ res.isErr
             THEN [out |-> <<Assign(n.name, AssignSourceTypeAssert(exprString(res))),
                             Return(n.name)>>,
                   st |-> n.st]
             ELSE IF res.kind \in {"ident", "selector"}
             THEN [out |-> <<Assign(n.name, classifyAssignSource(res)),
                             Return(n.name)>>,
                   st |-> n.st]
             ELSE [out |-> <<>>, st |-> ts]

RECURSIVE walkStmts(_, _, _)
RECURSIVE onIf(_, _)

\* the statements of a block from the i-th on
walkStmts(list, i, ts) ==
    IF i > Len(list) THEN [out |-> <<>>, st |-> ts]
    ELSE LET s == list[i]
             one == IF s.kind = "assign" THEN onAssign(s, ts)
                    ELSE IF s.kind = "expr" THEN [out |-> onExpr(s.x, ts), st |-> ts]
                    ELSE IF s.kind = "if" THEN onIf(s, ts)
                    ELSE IF s.kind = "return" THEN onReturn(s, ts)
                    ELSE [out |-> <<>>, st |-> ts]
             rest == walkStmts(list, i + 1, one.st)
         IN  [out |-> one.out \o rest.out, st |-> rest.st]

walkBlock(b, ts) == walkStmts(b.list, 1, ts)

onIf(s, ts) ==
    LET init == IF s.init.kind = "assign" THEN onAssign(s.init, ts)
                ELSE IF s.init.kind = "expr"
                THEN [out |-> onExpr(s.init.x, ts), st |-> ts]
                ELSE [out |-> <<>>, st |-> ts]
        thenNodes == walkBlock(s.body, init.st)
        elseNodes == IF s.els.kind = "block" THEN walkBlock(s.els, thenNodes.st)
                     ELSE [out |-> <<>>, st |-> thenNodes.st]
    IN  [out |-> init.out \o <<If(exprString(s.cond), thenNodes.out, elseNodes.out)>>,
         st |-> elseNodes.st]

\* the body of the loop of TranslateFile for one function declaration
translateFunc(fn, picks) ==
    LET ts == [newState(fn.name, picks) EXCEPT
                  !.namedRet = namedErrorResults(fn.results)]
    IN  [name |-> fn.name, nodes |-> walkBlock(fn.body, ts).out]

\* the statements of the functions translated, over an error variable err, an
\* integer x, the sentinel io.EOF, a local function g and the wrapper and
\* constructor calls of fmt and errors
Stmts ==
    LET ErrVar == Ident("err", TRUE, FALSE)
        IntVar == Ident("x", FALSE, FALSE)
        NilLit == Ident("nil", FALSE, FALSE)
        EOFSel == SelectorExpr("io", "EOF", TRUE, FALSE)
        CallG == CallExpr("", "g", TRUE, <<>>)
        StringLit(m) == BasicLit(<<"\"">> \o m \o <<"\"">>)
        WrapOf(e) ==
            CallExpr("fmt", "Errorf", FALSE,
                     <<StringLit(<<"x", ":", " ", "%", "w">>), e>>)
        CtorErrorf ==
            CallExpr("fmt", "Errorf", FALSE, <<StringLit(<<"b", "a", "d">>)>>)
        CtorNew ==
            CallExpr("errors", "New", FALSE, <<StringLit(<<"b", "a", "d">>)>>)
        AssertErr == TypeAssertExpr("v", TRUE)
        ErrNotNil == BinaryExpr(<<"err", " != ", "nil">>)
        ReturnErr == BlockStmt(<<ReturnStmt(<<ErrVar>>)>>)
        LastResults ==
            {NilLit, ErrVar, IntVar, EOFSel, CallG, WrapOf(ErrVar), WrapOf(CallG),
             CtorErrorf, AssertErr}
        ReturnStmts ==
            {ReturnStmt(<<e>>) : e \in LastResults}
            \cup {ReturnStmt(<<IntVar, e>>) : e \in {NilLit, ErrVar}}
            \cup {ReturnStmt(<<>>)}
        AssignStmts ==
            {AssignStmt(<<"err">>, <<CallG>>),
             AssignStmt(<<"x", "err">>, <<CallG>>),
             AssignStmt(<<"err">>, <<WrapOf(Ident("e2", TRUE, FALSE))>>),
             AssignStmt(<<"x", "err">>, <<IntVar, CtorNew>>)}
        ExprStmts ==
            {ExprStmt(CallExpr("", "panic", FALSE, <<WrapOf(ErrVar)>>)),
             ExprStmt(CallExpr("", "panic", FALSE, <<ErrVar>>)),
             ExprStmt(CallExpr("log", "Println", FALSE, <<ErrVar>>)),
             ExprStmt(CallExpr("os", "IsNotExist", FALSE, <<ErrVar>>))}
        IfStmts ==
            {IfStmt(init, ErrNotNil, BlockStmt(<<ReturnStmt(<<r>>)>>), els) :
                init \in {NoStmt, AssignStmt(<<"err">>, <<CallG>>)},
                r \in {ErrVar, WrapOf(ErrVar)},
                els \in {NoStmt, ReturnErr,
                         IfStmt(NoStmt, ErrNotNil, ReturnErr, NoStmt)}}
    IN  ReturnStmts \cup AssignStmts \cup ExprStmts \cup IfStmts
        \cup {ForStmt(ReturnErr), SwitchStmt(ReturnErr)}

Bodies == {BlockStmt(l) : l \in UNION {[1..n -> Stmts] : n \in 0..MaxStmts}}

Signatures ==
    {<<>>,
     <<Field("", FALSE)>>,
     <<Field("", TRUE)>>,
     <<Field("", FALSE), Field("", TRUE)>>,
     <<Field("err", TRUE)>>,
     <<Field("err", TRUE), Field("e2", TRUE)>>}

Decls ==
    {FuncDecl("f", r, b) : r \in Signatures, b \in Bodies}
    \cup {FuncDecl("f", r, NoStmt) : r \in Signatures}
    \cup {GenDecl}

\* the number of return statements a walk of the statements from the i-th
\* on can meet
RECURSIVE returnsIn(_, _)
returnsIn(list, i) ==
    IF i > Len(list) THEN 0
    ELSE LET s == list[i]
             here == IF s.kind = "return" THEN 1
                     ELSE IF s.kind = "if"
                     THEN returnsIn(s.body.list, 1)
                          + (IF s.els.kind = "block" THEN returnsIn(s.els.list, 1)
                             ELSE 0)
                     ELSE 0
         IN  here + returnsIn(list, i + 1)

\* the orders the iterations over namedRet can come out in: one first key
\* for each return statement the walk can meet
Picks(fn) ==
    IF namedErrorResults(fn.results) = {} THEN {<<>>}
    ELSE [1..returnsIn(fn.body.list, 1) -> namedErrorResults(fn.results)]

InitTr ==
    /\ trFile \in {<<d>> : d \in Decls}
    /\ trNext = 1
    /\ trProg = <<>>

hasBody(decl) == decl.kind = "func" /\ decl.body.kind = "block"

\* one round of the loop of TranslateFile over a function with a body
TranslateDecl ==
    /\ trNext <= Len(trFile)
    /\ hasBody(trFile[trNext])
    /\ \E picks \in Picks(trFile[trNext]) :
          trProg' = Append(trProg, translateFunc(trFile[trNext], picks))
    /\ trNext' = trNext + 1
    /\ UNCHANGED <<trFile, notTr>>

\* one round of the loop over any other declaration
SkipDecl ==
    /\ trNext <= Len(trFile)
    /\ ~hasBody(trFile[trNext])
    /\ trNext' = trNext + 1
    /\ UNCHANGED <<trFile, trProg, notTr>>

NextTr == TranslateDecl \/ SkipDecl

\* the declarations that have an entry in the program, in order
Translated == SelectSeq(SubSeq(trFile, 1, trNext - 1), hasBody)

lastResultIsError(fn) ==
    Len(fn.results) > 0 /\ fn.results[Len(fn.results)].isErr

\* Walks a node list from its i-th node with the names bound so far: ok is
\* FALSE when a Wrap is met whose name no Assign has bound on the way; live
\* tells whether the end of the list is reached; bound is what is bound there.
RECURSIVE FlowWraps(_, _, _)
FlowWraps(nodes, i, bound) ==
    IF i > Len(nodes) THEN [ok |-> TRUE, live |-> TRUE, bound |-> bound]
    ELSE LET n == nodes[i]
         IN  IF n.kind = "Assign" THEN FlowWraps(nodes, i + 1, bound \cup {n.name})
             ELSE IF n.kind = "Wrap"
             THEN IF n.name \in bound THEN FlowWraps(nodes, i + 1, bound)
                  ELSE [ok |-> FALSE, live |-> TRUE, bound |-> bound]
             ELSE IF n.kind = "Return"
             THEN [ok |-> TRUE, live |-> FALSE, bound |-> bound]
             ELSE IF n.kind = "If"
             THEN LET t == FlowWraps(n.then, 1, bound)
                      e == FlowWraps(n.els, 1, bound)
                  IN  IF ~t.ok \/ ~e.ok
                      THEN [ok |-> FALSE, live |-> TRUE, bound |-> bound]
                      ELSE IF ~t.live /\ ~e.live
                      THEN [ok |-> TRUE, live |-> FALSE, bound |-> bound]
                      ELSE FlowWraps(nodes, i + 1,
                                     IF t.live /\ e.live THEN t.bound \cap e.bound
                                     ELSE IF t.live THEN t.bound ELSE e.bound)
             ELSE FlowWraps(nodes, i + 1, bound)

\* C9 (as stated): in the CIR of every translated function, every Wrap node
\* is preceded, on every path through the nested If structure from the start
\* of the function, by an Assign node of the same name; wrapper calls in
\* assignments, in return statements and in panic arguments alike.
C9_WrapAfterAssign ==
    \A i \in 1..Len(trProg) : FlowWraps(trProg[i].nodes, 1, {}).ok

\* C10 (as stated): a function whose last result type is not the error
\* interface, a function without results included, is translated into an
\* empty node list (and so into no Return node).
C10_NonErrorFunctionEmpty ==
    \A i \in 1..Len(trProg) :
        ~lastResultIsError(Translated[i]) => trProg[i].nodes = <<>>

\* C20: translation is deterministic: a second translation of the same
\* declaration yields the same function (names and nodes; positions are not
\* part of the modelled nodes, as after StripPos), whatever order the map of
\* named error results is ranged over, also with more than one such result.
C20_TranslationDeterministic ==
    \A i \in 1..Len(trProg) :
        \A p \in Picks(Translated[i]) : translateFunc(Translated[i], p) = trProg[i]

\* the characters of the format texts normalizeWrapMsg is tried on
MsgChars == {"a", " ", ":", "%", "w", "(", ")"}

\* m := normalizeWrapMsg(format)
CallNormalize ==
    /\ pfRes = <<>>
    /\ pfRes' = <<normalizeWrapMsg(pfArg)>>
    /\ UNCHANGED <<pfArg, notPure>>

WrapSuffixes == {<<":", " ", "%", "w">>, <<" ", "%", "w">>, <<"(", "%", "w", ")">>}

\* C28: normalizeWrapMsg returns the format with its trailing ": %w", " %w"
\* or "(%w)" removed and with no leading or trailing whitespace left.
C28_NormalizedAndTrimmed ==
    pfRes # <<>> =>
        LET m == TrimSpace(pfArg)
            r == pfRes[1]
        IN  /\ r = TrimSpace(r)
            /\ \A suf \in WrapSuffixes : HasSuffix(m, suf) => Len(r) < Len(m)

\* the return statements of a statement list, nested at any depth in if,
\* else-if, for and switch statements, that yield nodes when translated
RECURSIVE ErrorReturnsIn(_, _)
ErrorReturnsIn(list, i) ==
    IF i > Len(list) THEN 0
    ELSE LET s == list[i]
             here ==
                IF s.kind = "return"
                THEN (IF onReturn(s, newState("f", <<>>)).out # <<>> THEN 1 ELSE 0)
                ELSE IF s.kind = "if"
                THEN ErrorReturnsIn(s.body.list, 1)
                     + (IF s.els.kind = "block" THEN ErrorReturnsIn(s.els.list, 1)
                        ELSE IF s.els.kind = "if" THEN ErrorReturnsIn(<<s.els>>, 1)
                        ELSE 0)
                ELSE IF s.kind \in {"for", "switch"}
                THEN ErrorReturnsIn(s.body.list, 1)
                ELSE 0
         IN  here + ErrorReturnsIn(list, i + 1)

\* the Return nodes of a node list, nested at any depth in If nodes
RECURSIVE ReturnNodesIn(_, _)
ReturnNodesIn(nodes, i) ==
    IF i > Len(nodes) THEN 0
    ELSE LET n == nodes[i]
             here == IF n.kind = "Return" THEN 1
                     ELSE IF n.kind = "If"
                     THEN ReturnNodesIn(n.then, 1) + ReturnNodesIn(n.els, 1)
                     ELSE 0
         IN  here + ReturnNodesIn(nodes, i + 1)

\* C25: an error-returning return statement nested in a switch case, in a
\* loop body or in an else-if branch is represented in the CIR of its
\* function by its Assign/Return nodes, as it is when nested in the block
\* of an if statement: the CIR has one Return node per such statement.
C25_NestedReturnsTranslated ==
    \A i \in 1..Len(trProg) :
        ReturnNodesIn(trProg[i].nodes, 1) = ErrorReturnsIn(Translated[i].body.list, 1)

\* a return statement whose last expression is textually nil
SuccessReturn(s) ==
    /\ s.kind = "return"
    /\ Len(s.results) > 0
    /\ s.results[Len(s.results)].kind = "ident"
    /\ s.results[Len(s.results)].name = "nil"

\* a statement list with its success returns taken out, those in the blocks
\* of its if statements included
RECURSIVE WithoutSuccessReturns(_)
WithoutSuccessReturns(list) ==
    IF Len(list) = 0 THEN <<>>
    ELSE LET s == Head(list)
             rest == WithoutSuccessReturns(Tail(list))
         IN  IF SuccessReturn(s) THEN rest
             ELSE IF s.kind = "if"
             THEN <<[s EXCEPT
                        !.body = BlockStmt(WithoutSuccessReturns(s.body.list)),
                        !.els = IF s.els.kind = "block"
                                THEN BlockStmt(WithoutSuccessReturns(s.els.list))
                                ELSE s.els]>> \o rest
             ELSE <<s>> \o rest

\* C11: a return statement whose last expression is the nil literal adds no
\* node, whatever its other results are: the nodes of a function are those
\* of the same function with its success returns deleted, and a body made of
\* success returns only gives the empty node list.
C11_SuccessReturnsSilent ==
    \A i \in 1..Len(trProg) :
        LET fn == Translated[i]
            rest == WithoutSuccessReturns(fn.body.list)
            stripped == [fn EXCEPT !.body = BlockStmt(rest)]
        IN  /\ trProg[i].nodes \in
                   {translateFunc(stripped, p).nodes : p \in Picks(stripped)}
            /\ Len(rest) = 0 => trProg[i].nodes = <<>>

\* a translated function whose body is two success returns, one of them with
\* another result before the nil
C11_Witness ==
    \E i \in 1..Len(trProg) :
        LET list == Translated[i].body.list
        IN  /\ Len(list) = MaxStmts
            /\ \A k \in 1..Len(list) : SuccessReturn(list[k])
            /\ \E k \in 1..Len(list) : Len(list[k].results) > 1
            /\ trProg[i].nodes = <<>>

----
(***************************************************************************)
(* Configuration enums: SigWrapType, SigLoggingType, SigAbandonType        *)
(* (support_types.go) and WrapKind, LoggingKind (package tracing).         *)
(*                                                                         *)
(* A value is named by its constant; a text is a string. UnmarshalText     *)
(* yields [value |-> the receiver afterwards, err |-> an error is          *)
(* returned].                                                              *)
(***************************************************************************)
EnumTypes == {"SigWrapType", "SigLoggingType", "SigAbandonType", "WrapKind", "LoggingKind"}

\* sigTypeValueMap, sigLoggingTypeValueMap, sigAbandonTypeValueMap, and the
\* switches of WrapKind.MarshalText and LoggingKind.MarshalText: the text of
\* each value that has one
ValueText(type) ==
    IF type = "SigWrapType"
    THEN [v \in {"SigWrapTypeErrorf", "SigWrapTypeWrap"} |->
            IF v = "SigWrapTypeErrorf" THEN "errorf" ELSE "wrap"]
    ELSE IF type = "SigLoggingType"
    THEN [v \in {"SigLoggingTypeFormat", "SigLoggingTypeZap", "SigLoggingTypeZerolog",
                 "SigLoggingTypeSlog"} |->
            IF v = "SigLoggingTypeFormat" THEN "format"
            ELSE IF v = "SigLoggingTypeZap" THEN "zap"
            ELSE IF v = "SigLoggingTypeZerolog" THEN "zerolog" ELSE "slog"]
    ELSE IF type = "SigAbandonType"
    THEN [v \in {"SigAbandonTypeSilent", "SigAbandonTypeFormat", "SigAbandonTypeZap",
                 "SigAbandonTypeZerolog"} |->
            IF v = "SigAbandonTypeSilent" THEN "silent"
            ELSE IF v = "SigAbandonTypeFormat" THEN "format"
            ELSE IF v = "SigAbandonTypeZap" THEN "zap" ELSE "zerolog"]
    ELSE IF type = "WrapKind"
    THEN [v \in {"WrapKindFmt", "WrapKindErrors"} |->
            IF v = "WrapKindFmt" THEN "fmt" ELSE "errors"]
    ELSE [v \in {"LoggingKindFormat", "LoggingKindZap", "LoggingKindZeroLog"} |->
            IF v = "LoggingKindFormat" THEN "format"
            ELSE IF v = "LoggingKindZap" THEN "zap" ELSE "zerolog"]

\* the loop "for k, v := range m { if v == text { *s = k } }": the receiver
\* afterwards (the texts of a map are distinct, so the order does not matter)
RangeAssign(type, old, text) ==
    IF \E k \in DOMAIN ValueText(type) : ValueText(type)[k] = text
    THEN CHOOSE k \in DOMAIN ValueText(type) : ValueText(type)[k] = text
    ELSE old

\* SigWrapType.UnmarshalText, SigLoggingType.UnmarshalText and
\* SigAbandonType.UnmarshalText on a receiver holding old
SigUnmarshalText(type, old, text) ==
    IF type = "SigAbandonType"
    THEN \* return nil inside the loop
         [value |-> RangeAssign(type, old, text),
          err |-> ~\E k \in DOMAIN ValueText(type) : ValueText(type)[k] = text]
    ELSE \* the loop has no return; the error is returned after it
         [value |-> RangeAssign(type, old, text), err |-> TRUE]

\* WrapKind.UnmarshalText and LoggingKind.UnmarshalText on a receiver
\* holding old
KindUnmarshalText(type, old, text) ==
    IF type = "WrapKind"
    THEN IF text = "fmt" THEN [value |-> "WrapKindFmt", err |-> FALSE]
         ELSE IF text = "errors" THEN [value |-> "WrapKindErrors", err |-> FALSE]
         ELSE [value |-> old, err |-> TRUE]
    ELSE IF text = "format" THEN [value |-> "LoggingKindFormat", err |-> FALSE]
         ELSE IF text = "zap" THEN [value |-> "LoggingKindZap", err |-> FALSE]
         ELSE IF text = "zerolog" THEN [value |-> "LoggingKindZeroLog", err |-> FALSE]
         ELSE [value |-> old, err |-> TRUE]

\* the texts tried: the names of all five enums, one no enum knows and the
\* empty text
EnumTexts ==
    UNION {{ValueText(t)[v] : v \in DOMAIN ValueText(t)} : t \in EnumTypes}
        \cup {"bogus", ""}

\* err := v.UnmarshalText(text) on a receiver of one of the five types
CallUnmarshalText ==
    /\ pfRes = <<>>
    /\ pfRes' = <<IF pfArg.type \in {"WrapKind", "LoggingKind"}
                  THEN KindUnmarshalText(pfArg.type, pfArg.old, pfArg.text)
                  ELSE SigUnmarshalText(pfArg.type, pfArg.old, pfArg.text)>>
    /\ UNCHANGED <<pfArg, notPure>>

\* C21: UnmarshalText of every configuration enum sets the value and returns
\* no error when the text names a known value, and returns an error exactly
\* when the text names no known value.
C21_UnmarshalTextKnownValues ==
    pfRes # <<>> =>
        LET names == ValueText(pfArg.type)
            known == {v \in DOMAIN names : names[v] = pfArg.text}
        IN  /\ pfRes[1].err = (known = {})
            /\ known # {} => pfRes[1].value \in known

----
(***************************************************************************)
(* ScrapEngine: the wrapper branch of scrapCall for a WrapKindFmt wrapper  *)
(* (ast_scrap.go).                                                         *)
(*                                                                         *)
(* A call is [format, args, span]: format is [lit, value], value the       *)
(* source text of the literal with its quotes (empty when the first        *)
(* argument is not a literal); args are the kinds of the arguments after   *)
(* the format: an error identifier, another expression of type error, or   *)
(* a value of another type.                                                *)
(***************************************************************************)
DoubleQuote == "dq"
FmtChars == {"a", " ", ":", "%", "w"}
ArgKinds == {"errIdent", "errExpr", "other"}
wrapSuffix == <<":", " ", "%", "w">>

\* strconv.Quote on a text without characters that need escaping
Quote(s) == <<DoubleQuote>> \o s \o <<DoubleQuote>>

\* strconv.Unquote, its error dropped: the text between the quotes, empty
\* when the quotes are missing
Unquote(v) ==
    IF Len(v) >= 2 /\ v[1] = DoubleQuote /\ v[Len(v)] = DoubleQuote
    THEN SubSeq(v, 2, Len(v) - 1)
    ELSE <<>>

\* ScrapEngine.scrapFmtDetails(pass, call, span): [src, msg, isFmtNew] and
\* the rules reported on the way, in order
scrapFmtDetails(call) ==
    LET errAt == {i \in 1..Len(call.args) : call.args[i] \in {"errIdent", "errExpr"}}
    IN  IF Len(call.args) = 0 \/ errAt = {}
        THEN [src |-> <<>>, msg |-> <<>>, isFmtNew |-> TRUE, reports |-> <<>>]
        ELSE LET errIndex == CHOOSE i \in errAt : \A j \in errAt : i <= j
                 v == IF call.format.lit THEN call.format.value ELSE Quote(wrapSuffix)
                 r1 == IF call.format.lit THEN <<>> ELSE <<"CER0101">>
                 bad == ~HasSuffix(Unquote(v), wrapSuffix)
                 unquote == IF bad THEN wrapSuffix ELSE Unquote(v)
                 r2 == IF bad THEN <<"CER102">> ELSE <<>>
                 isId == call.args[errIndex] = "errIdent"
             IN  [src |-> IF isId THEN <<"e", "r", "r">> ELSE <<>>,
                  msg |-> SubSeq(unquote, 1, Len(unquote) - Len(wrapSuffix)),
                  isFmtNew |-> FALSE,
                  reports |-> r1 \o r2 \o (IF isId THEN <<>> ELSE <<"CER065">>)]

\* ScrapEngine.scrapCall(pass, ctx, call) on a call of a WrapKindFmt
\* wrapper: the node goes into the context, the reports to the reporter
CallScrapCall ==
    /\ pfRes = <<>>
    /\ ~ctxPanic
    /\ Len(added) < MaxAdds
    /\ LET d == scrapFmtDetails(pfArg)
           node == IF d.isFmtNew THEN [kind |-> "ExprNew"]
                   ELSE [kind |-> "ExprWrap", Var |-> d.src, Msg |-> d.msg]
           got == attachInto(tree, NewSpan(pfArg.span[1], pfArg.span[2], node))
       IN  /\ tree' = got.tree
           /\ ctxPanic' = got.panic
           /\ added' = Append(added, [start |-> pfArg.span[1], end |-> pfArg.span[2],
                                      node |-> node])
           /\ pfRes' = <<[reports |-> d.reports]>>
    /\ UNCHANGED <<lookupPos, lookupRes, lookupAt, pfArg,
                   repVars, factVars, interpVars, regVars, trVars>>

\* C24: a format-kind wrapper call with an error argument whose literal
\* format does not end with ": %w" makes exactly one CER102 report and still
\* adds a Wrap node whose message is the format text with its trailing wrap
\* verb trimmed off.
C24_BadFormatKeepsPrefix ==
    (/\ pfRes # <<>>
     /\ pfArg.format.lit
     /\ \E i \in 1..Len(pfArg.args) : pfArg.args[i] \in {"errIdent", "errExpr"}
     /\ ~HasSuffix(Unquote(pfArg.format.value), wrapSuffix))
    => /\ Cardinality({k \in 1..Len(pfRes[1].reports) :
                          pfRes[1].reports[k] = "CER102"}) = 1
       /\ Len(added) = 1
       /\ added[1].node.kind = "ExprWrap"
       /\ added[1].node.Msg =
              TrimSuffix(Unquote(pfArg.format.value), <<"%", "w">>)

----
(***************************************************************************)
(* What the rules ask of the traversal, read off the interpreted function. *)
(***************************************************************************)
\* the paths from the entry block to a block without successors that pass
\* no block twice
IsPath(p) ==
    /\ p[1] = 1
    /\ \A i, j \in 1..Len(p) : i # j => p[i] # p[j]
    /\ \A i \in 1..(Len(p) - 1) :
         \E k \in 1..Len(cfg[p[i]].succs) : cfg[p[i]].succs[k] = p[i + 1]
    /\ cfg[p[Len(p)]].succs = <<>>

SeqsUpTo(n) == UNION {[1..m -> Blocks] : m \in 1..n}
TerminalPaths == {p \in SeqsUpTo(NumBlocks) : IsPath(p)}

HasInstr(b, kind, name) ==
    \E k \in 1..Len(cfg[b].instrs) :
        cfg[b].instrs[k].kind = kind /\ cfg[b].instrs[k].name = name

\* the path enters the then branch of an "if err != nil"
KnownNotNilOn(p) ==
    \E i \in 1..(Len(p) - 1) :
        /\ Len(cfg[p[i]].succs) = 2
        /\ cfg[p[i]].succs[1] = p[i + 1]
        /\ cfg[p[i]].succs[2] # p[i + 1]
LoggedOn(p) == \E i \in 1..Len(p) : HasInstr(p[i], "Call", "err")
ReturnedOn(p) == HasInstr(p[Len(p)], "Return", "err")
ReturnPos(p) == <<p[Len(p)], Len(cfg[p[Len(p)]].instrs)>>

\* C6 (as stated): when the traversal of a function is complete, every error
\* variable known non-nil at a terminal state that was neither logged nor
\* returned on that path has a CER000 report.
C6_SilentDropReported ==
    InterpDone =>
        \A p \in TerminalPaths :
            (KnownNotNilOn(p) /\ ~LoggedOn(p) /\ ~ReturnedOn(p)) =>
                \E k \in 1..Len(emitted) : emitted[k].rule = "CER000"

\* C7 (as stated): interpreting a path on which an error variable is logged
\* and then returned adds a CER150 report at the position of the return.
C7_LogAndReturnReported ==
    InterpDone =>
        \A p \in TerminalPaths :
            (LoggedOn(p) /\ ReturnedOn(p)) =>
                \E k \in 1..Len(emitted) :
                    emitted[k].rule = "CER150" /\ emitted[k].pos = ReturnPos(p)

\* the block lies on a cycle of the control-flow graph
OnCycle(b) ==
    \E p \in SeqsUpTo(NumBlocks) :
        /\ \E k \in 1..Len(cfg[b].succs) : cfg[b].succs[k] = p[1]
        /\ \A i \in 1..(Len(p) - 1) :
             \E k \in 1..Len(cfg[p[i]].succs) : cfg[p[i]].succs[k] = p[i + 1]
        /\ p[Len(p)] = b

\* C12 (as stated): the traversal is path-sensitive; a block is interpreted
\* once for each State it is reached with, so once InterpretSSA has returned
\* every frame that was popped for a block outside the loops (the block
\* together with the State object of the path that led to it) has had its
\* block interpreted under its State, the second frame of a join included.
C12_InterpretedUnderEveryState ==
    InterpDone =>
        \A k \in 1..Len(reached) :
            ~OnCycle(reached[k].block) => reached[k].traced


\* the blocks reachable from the entry block along Succs
RECURSIVE ReachFrom(_)
ReachFrom(set) ==
    LET next == set \cup UNION {{cfg[b].succs[k] : k \in 1..Len(cfg[b].succs)} : b \in set}
    IN  IF next = set THEN set ELSE ReachFrom(next)

\* C29: InterpretSSA terminates on every control-flow graph, also one with
\* loops, and when it returns it has interpreted every block reachable from
\* the entry block exactly once and no other block.
C29_TerminatesHavingTracedReachable ==
    /\ <>InterpDone
    /\ [](InterpDone =>
            \A b \in Blocks :
                Cardinality({k \in 1..Len(traced) : traced[k] = b}) =
                    IF b \in ReachFrom({1}) THEN 1 ELSE 0)

\* InterpretSSA has returned from a graph with a loop and an unreachable block
C29_Witness ==
    /\ InterpDone
    /\ \E b \in Blocks : OnCycle(b) /\ b \in ReachFrom({1})
    /\ \E b \in Blocks : b \notin ReachFrom({1})

----
(***************************************************************************)
(* What the span index is meant to answer.                                 *)
(***************************************************************************)
Covers(a, pos) == a.start <= pos /\ pos <= a.end
SpanLen(a) == a.end - a.start

\* every two spans of the sequence are disjoint or one contains the other
Laminar(as) ==
    \A i, j \in 1..Len(as) :
        \/ as[i].end < as[j].start
        \/ as[j].end < as[i].start
        \/ contains(as[i], as[j])
        \/ contains(as[j], as[i])

\* the nodes of the smallest spans of as that contain pos
InnermostNodes(as, pos) ==
    {as[i].node : i \in {k \in 1..Len(as) :
        /\ Covers(as[k], pos)
        /\ \A j \in 1..Len(as) : Covers(as[j], pos) => SpanLen(as[k]) <= SpanLen(as[j])}}

\* two spans intersect and neither contains the other
PartialOverlap(a, b) ==
    /\ a.start <= b.end /\ b.start <= a.end
    /\ ~contains(a, b)
    /\ ~contains(b, a)

\* C16: an Add of a span that partially overlaps a span added before it is
\* rejected with a panic, whichever other spans the index holds and at
\* whatever depth the overlapping span is stored.
C16_PartialOverlapRejected ==
    (\E k \in 1..Len(added) : \E j \in 1..(k - 1) :
        PartialOverlap(added[j], added[k])) => ctxPanic

\* C17: an Add of a span with the node it was already added with leaves the
\* containment tree as it was: the tree after two identical Add calls is the
\* tree after one.
C17_SecondAddChangesNothing ==
    [][(/\ Len(added') = Len(added) + 1
        /\ \E k \in 1..Len(added) : added[k] = added'[Len(added')])
          => tree' = tree]_vars

\* C1 (as stated): for a laminar set of added spans, in any order of Add
\* calls, GetByPos(pos) returns the node of the innermost added span that
\* contains pos, and nil exactly when no added span contains pos.
C1_InnermostFound ==
    (lookupPos # NoPos /\ Laminar(added)) =>
        LET as == SubSeq(added, 1, lookupAt)
            inner == InnermostNodes(as, lookupPos)
        IN  IF inner = {} THEN lookupRes = Nil ELSE lookupRes \in inner

----
(***************************************************************************)
(* Specifications: one per subsystem.                                      *)
(***************************************************************************)
\* the variables of the traversal when no function is being interpreted
NoInterp ==
    /\ cfg = <<>>
    /\ stack = <<>>
    /\ visited = {}
    /\ cur = 0
    /\ ip = 1
    /\ curState = NewState
    /\ traced = <<>>
    /\ nStates = 0
    /\ reached = <<>>
    /\ emitted = <<>>

\* the variables of the translator when no file is being translated
NoTr ==
    /\ trFile = <<>>
    /\ trNext = 1
    /\ trProg = <<>>

\* no function is called on its own
NoPure ==
    /\ pfArg = <<>>
    /\ pfRes = <<>>

\* every subsystem as constructed; nothing being translated or interpreted
Init == InitCtx /\ InitRep /\ InitFacts /\ NoInterp /\ InitReg /\ NoTr /\ NoPure

\* the same with a file handed to TranslateFile
InitTranslate == InitCtx /\ InitRep /\ InitFacts /\ NoInterp /\ InitReg /\ InitTr /\ NoPure

\* the same with a function handed to InterpretSSA
InitInterpret == InitCtx /\ InitRep /\ InitFacts /\ InitInterp /\ InitReg /\ NoTr /\ NoPure

\* a State whose variables have fact records with an allocated, empty class
\* map: what SetClass works on once classOf exists
InitClass ==
    /\ InitCtx /\ InitRep /\ NoInterp /\ InitReg /\ NoTr /\ NoPure
    /\ st = <<[errorsNil |-> FALSE,
               errors |-> [n \in Names |-> [NewFacts EXCEPT !.classOfNil = FALSE]],
               exitsNil |-> FALSE]>>
    /\ firstCare = <<[n \in Names |-> "none"]>>
    /\ lastCall = NoCall
    /\ factsPanic = FALSE
    /\ factObj = <<[n \in Names |-> <<1, n>>]>>
    /\ parent = <<0>>
    /\ aliased = {}

NextClass == CallSetClassAny

SpecClass == InitClass /\ [][NextClass]_vars

\* one State as traceBlock works on it (a clone: its maps are allocated) and
\* two error variables
InitAlias ==
    /\ InitCtx /\ InitRep /\ NoInterp /\ InitReg /\ NoTr /\ NoPure
    /\ st = <<CloneState(NewState)>>
    /\ firstCare = <<[n \in AliasNames |-> "none"]>>
    /\ lastCall = NoCall
    /\ factsPanic = FALSE
    /\ factObj = <<EmptyMap>>
    /\ parent = <<0>>
    /\ aliased = {}

SpecAlias == InitAlias /\ [][NextAlias]_vars

\* a Reporter or a ReportEngine right after construction, used by one goroutine
InitPhase ==
    /\ InitCtx /\ InitFacts /\ NoInterp /\ InitReg /\ NoTr /\ NoPure
    /\ heap = <<>>
    /\ reports = NilSlice
    /\ mu = 0
    /\ pc = [g \in Goroutines |-> "start"]
    /\ loc = [g \in Goroutines |-> NilSlice]
    /\ mainPc = "idle"
    /\ snaps = <<>>
    /\ snapAfter = <<>>
    /\ mutatedIdx = <<>>
    /\ engine \in Engines
    /\ calls = <<>>

SpecPhase == InitPhase /\ [][NextPhase]_vars

\* normalizeWrapMsg is about to be called on a format text
InitNorm ==
    /\ InitCtx /\ InitRep /\ InitFacts /\ NoInterp /\ InitReg /\ NoTr
    /\ pfArg \in UNION {[1..n -> MsgChars] : n \in 0..MaxMsgLen}
    /\ pfRes = <<>>

SpecNorm == InitNorm /\ [][CallNormalize]_vars

\* UnmarshalText is about to be called on a receiver that holds the zero
\* value or a value set before
InitEnum ==
    /\ InitCtx /\ InitRep /\ InitFacts /\ NoInterp /\ InitReg /\ NoTr
    /\ \E t \in EnumTypes :
         pfArg \in [type : {t}, old : {"Invalid"} \cup DOMAIN ValueText(t),
                    text : EnumTexts]
    /\ pfRes = <<>>

SpecEnum == InitEnum /\ [][CallUnmarshalText]_vars

\* scrapCall is about to meet a call of a WrapKindFmt wrapper, the context
\* still empty
InitScrap ==
    /\ InitCtx /\ InitRep /\ InitFacts /\ NoInterp /\ InitReg /\ NoTr
    /\ pfArg \in [format : {[lit |-> FALSE, value |-> <<>>]} \cup
                           {[lit |-> TRUE, value |-> Quote(s)] :
                               s \in UNION {[1..n -> FmtChars] : n \in 0..MaxMsgLen}},
                  args : UNION {[1..n -> ArgKinds] : n \in 0..2},
                  span : {sp \in Spans : sp[1] <= 1 /\ sp[2] = MaxPos}]
    /\ pfRes = <<>>

SpecScrap == InitScrap /\ [][CallScrapCall]_vars

SpecCtx == Init /\ [][NextCtx]_vars

SpecRep == Init /\ [][NextRep]_vars

SpecFacts == Init /\ [][NextFacts]_vars

SpecReg == Init /\ [][NextReg]_vars

SpecTr == InitTranslate /\ [][NextTr]_vars

SpecInterp == InitInterpret /\ [][NextInterp]_vars

\* InterpretSSA is called on a graph of any shape; the entry block logs err
\* and every return returns err
InitRuns ==
    /\ InitCtx /\ InitRep /\ InitFacts /\ InitReg /\ NoTr /\ NoPure
    /\ \E succs \in [Blocks -> SuccSeqs] :
         cfg = [b \in Blocks |->
                  [instrs |-> InstrsOf(b, succs[b], 1, {}), succs |-> succs[b]]]
    /\ stack = <<Frame(1, NewState, 1)>>
    /\ visited = {}
    /\ cur = 0
    /\ ip = 1
    /\ curState = NewState
    /\ traced = <<>>
    /\ nStates = 1
    /\ reached = <<>>
    /\ emitted = <<>>

\* InterpretSSA is one sequential loop: it keeps taking steps while it can
SpecInterpRuns == InitRuns /\ [][NextInterp]_vars /\ WF_vars(NextInterp)

====
